---- MODULE Spec2Model ----
(***************************************************************************)
(* OAuth 2.1 authorization server of metricchat (backend/app/services/     *)
(* oauth_server_service.py, backend/app/routes/oauth_server.py): the three *)
(* tables, the service methods and the route handlers, as a state machine  *)
(* over the durable store.                                                 *)
(*                                                                         *)
(* Values.  A plaintext credential is <<prefix, raw>>: the f-string        *)
(* f"{prefix}{raw}" with raw one draw of secrets.token_urlsafe.  A draw of *)
(* the CSPRNG is a value never drawn before (per kind, drawn[kind] counts  *)
(* the draws); raw 0 is a value that was never drawn.  A SHA-256 hex       *)
(* digest of a credential is <<"sha256", prefix, raw>>: injective, and     *)
(* never equal to a plaintext.  A nullable column is <<>> (NULL) or <<v>>. *)
(* Time is in seconds.                                                     *)
(***************************************************************************)
EXTENDS Integers, Sequences, FiniteSets, TLC

VARIABLES
    clients,   \* table oauth_mcp_clients, in insertion order (row id = index)
    codes,     \* table oauth_mcp_authorization_codes
    tokens,    \* table oauth_mcp_access_tokens
    origin,    \* per token row: the row it was minted from (history)
    drawn,     \* per kind: how many values secrets.token_urlsafe has drawn
    now,       \* datetime.utcnow(), in seconds
    ticks,     \* how many times the clock has advanced
    proc       \* per worker: the token request it is serving, and how far it is

vars == <<clients, codes, tokens, origin, drawn, now, ticks, proc>>

-----------------------------------------------------------------------------
(* Bounds of the model *)

MaxClients == 2
MaxCodes == 1
MaxTokens == 3
MaxTicks == 1
MaxRotations == 2

-----------------------------------------------------------------------------
(* Program constants *)

ACCESS_TOKEN_PREFIX == "bow_oauth_"
REFRESH_TOKEN_PREFIX == "bow_rt_"
CLIENT_ID_PREFIX == "bow_client_"
CLIENT_SECRET_PREFIX == "bow_secret_"
CODE_PREFIX == ""

ACCESS_TOKEN_LIFETIME == 3600
REFRESH_TOKEN_LIFETIME == 2592000
AUTHORIZATION_CODE_LIFETIME == 300

CLAUDE_REDIRECT_URIS ==
    << "https://claude.ai/api/mcp/auth_callback",
       "https://claude.com/api/mcp/auth_callback",
       "http://localhost:6274/oauth/callback",
       "http://localhost:6274/oauth/callback/debug" >>

-----------------------------------------------------------------------------
(* Values *)

NULL == <<>>
None == <<>>
Some(v) == <<v>>

Kinds == {"client", "secret", "code", "access", "refresh"}

\* The external user / organization store: a session is a member in its
\* selected organization.
Users == {"u1", "u2"}
Orgs == {"o1", "o2"}
Sessions == {<<"u1", "o1">>, <<"u2", "o2">>}

\* The workers that serve token requests concurrently, each with its own
\* AsyncSession.
Procs == {1, 2}
Idle == [pc |-> "idle"]

\* str.startswith on a credential's prefix part: the prefixes of each prefix.
PrefixesOf(p) ==
    CASE p = "bow_oauth_"  -> {"", "bow_", "bow_oauth_"}
      [] p = "bow_rt_"     -> {"", "bow_", "bow_rt_"}
      [] p = "bow_client_" -> {"", "bow_", "bow_client_"}
      [] p = "bow_secret_" -> {"", "bow_", "bow_secret_"}
      [] p = "bow_"        -> {"", "bow_"}
      [] OTHER             -> {""}

StartsWith(cred, prefix) == prefix \in PrefixesOf(cred[1])

\* _hash: hashlib.sha256(value.encode()).hexdigest()
Hash(cred) == <<"sha256", cred[1], cred[2]>>

\* base64.urlsafe_b64encode(sha256(verifier).digest()).rstrip("="), on the
\* verifiers of the model (the values are the real digests).
S256(verifier) ==
    CASE verifier = "dBjftJeZ4CVP-mB92K27uhbUJU1p1r_wW1gFWFOEjXk"
            -> "E9Melhoa2OwvFrEMTJguCHaoeK1t8URWbuGJSstw-cM"
      [] verifier = "wrong_verifier_that_doesnt_match"
            -> "UK1f17Af4ccEQYEDKkea0iyD2HvURQXsQlO_W170Hv4"
      [] verifier = ""
            -> "47DEQpj8HBSa-_TImW-5JCeuQeRkm5NMpJWZG3hSuFU"

\* _verify_pkce_s256
VerifyPkceS256(code_verifier, code_challenge) ==
    S256(code_verifier) = code_challenge

\* _generate_token / secrets.token_urlsafe: the next value of a kind.
PrefixOfKind(kind) ==
    CASE kind = "client"  -> CLIENT_ID_PREFIX
      [] kind = "secret"  -> CLIENT_SECRET_PREFIX
      [] kind = "code"    -> CODE_PREFIX
      [] kind = "access"  -> ACCESS_TOKEN_PREFIX
      [] kind = "refresh" -> REFRESH_TOKEN_PREFIX

Fresh(kind) == <<PrefixOfKind(kind), drawn[kind] + 1>>

Draw(d, kind) == [d EXCEPT ![kind] = @ + 1]

\* Result.scalar_one_or_none(): the row, or 0 when there is none (unique
\* columns: never more than one).
ScalarOneOrNone(rows) == IF rows = {} THEN 0 ELSE CHOOSE i \in rows : TRUE

-----------------------------------------------------------------------------
(* Initial state: the empty store *)

Init ==
    /\ clients = <<>>
    /\ codes = <<>>
    /\ tokens = <<>>
    /\ origin = <<>>
    /\ drawn = [k \in Kinds |-> 0]
    /\ now = 0
    /\ ticks = 0
    /\ proc = [p \in Procs |-> Idle]

-----------------------------------------------------------------------------
(* Inputs of the requests: every value issued so far, and one never issued *)

EvilUri == "https://evil.example.com/callback"
GoldenVerifier == "dBjftJeZ4CVP-mB92K27uhbUJU1p1r_wW1gFWFOEjXk"
WrongVerifier == "wrong_verifier_that_doesnt_match"

Creds(kind) == {<<PrefixOfKind(kind), n>> : n \in 0..drawn[kind]}

ClientIdInputs == Creds("client")
SecretInputs == {None} \cup Creds("secret")
CodeInputs == Creds("code")
RefreshInputs == Creds("refresh")
BearerInputs == Creds("access") \cup Creds("refresh")
VerifierInputs == {GoldenVerifier, WrongVerifier}
UriInputs == {CLAUDE_REDIRECT_URIS[1], EvilUri}
ScopeInputs == {"mcp", "claudeai"}

-----------------------------------------------------------------------------
(* OAuthServerService *)

NoResult == [ok |-> FALSE]

\* A create_client that stores the secret itself.
CreateClientRow_StoresPlaintext(organization_id, redirect_uris) ==
    [ id |-> Len(clients) + 1,
      organization_id |-> organization_id,
      client_id |-> Fresh("client"),
      client_secret_hash |-> Fresh("secret"),
      name |-> "Claude Web",
      redirect_uris |-> IF redirect_uris = None THEN CLAUDE_REDIRECT_URIS
                        ELSE redirect_uris[1],
      scopes |-> "mcp",
      deleted_at |-> NULL ]

\* create_client
CreateClientRow(organization_id, redirect_uris) ==
    [ id |-> Len(clients) + 1,
      organization_id |-> organization_id,
      client_id |-> Fresh("client"),
      client_secret_hash |-> Hash(Fresh("secret")),
      name |-> "Claude Web",
      redirect_uris |-> IF redirect_uris = None THEN CLAUDE_REDIRECT_URIS
                        ELSE redirect_uris[1],
      scopes |-> "mcp",
      deleted_at |-> NULL ]

\* list_clients: the rows its SELECT returns, newest first (rows are
\* appended in the order of their created_at)
ListClientsRows(organization_id) ==
    LET live == SelectSeq(clients, LAMBDA c : c.organization_id = organization_id /\ c.deleted_at = NULL) IN
    [i \in 1..Len(live) |-> live[Len(live) + 1 - i]]

\* A list_clients that serialises the whole row.
ListClients_WithHash(organization_id) ==
    LET rows == ListClientsRows(organization_id) IN
    [i \in 1..Len(rows) |->
        [ id |-> rows[i].id,
          client_id |-> rows[i].client_id,
          client_secret_hash |-> rows[i].client_secret_hash,
          name |-> rows[i].name,
          redirect_uris |-> rows[i].redirect_uris ]]

\* list_clients: the list of dicts it returns
ListClients(organization_id) ==
    LET rows == ListClientsRows(organization_id) IN
    [i \in 1..Len(rows) |->
        [ id |-> rows[i].id,
          client_id |-> rows[i].client_id,
          name |-> rows[i].name,
          redirect_uris |-> rows[i].redirect_uris ]]

\* A SELECT by client_id without the deleted_at IS NULL filter.
ClientLookup_IgnoresTombstone(client_id) ==
    ScalarOneOrNone({n \in DOMAIN clients : clients[n].client_id = client_id})

\* The SELECT of validate_client and get_client_info.
ClientLookup(client_id) ==
    ScalarOneOrNone({n \in DOMAIN clients : clients[n].client_id = client_id /\ clients[n].deleted_at = NULL})

\* get_client_info: None, or the dict it returns
GetClientInfo(client_id) ==
    LET c == ClientLookup(client_id) IN
    IF c = 0 THEN None
    ELSE Some([client_id |-> clients[c].client_id, name |-> clients[c].name])

\* A validate_client that never compares the secret.
ValidateClient_AnySecret(client_id, client_secret) == ClientLookup(client_id)

\* validate_client: the client's row, or 0 for None.
ValidateClient(client_id, client_secret) ==
    LET c == ClientLookup(client_id) IN
    IF c = 0 THEN 0
    ELSE IF client_secret # None /\ Hash(client_secret) # clients[c].client_secret_hash
         THEN 0
    ELSE c

\* A validate_redirect_uri that accepts every redirect_uri.
ValidateRedirectUri_AnyUri(c, redirect_uri) == TRUE

\* validate_redirect_uri: redirect_uri in json.loads(client.redirect_uris)
ValidateRedirectUri(c, redirect_uri) ==
    \E k \in DOMAIN clients[c].redirect_uris :
        clients[c].redirect_uris[k] = redirect_uri

\* create_authorization_code: the row it adds.
CreateAuthorizationCodeRow(client_id, user_id, organization_id, redirect_uri, scope, code_challenge) ==
    [ code |-> Fresh("code"),
      client_id |-> client_id,
      user_id |-> user_id,
      organization_id |-> organization_id,
      redirect_uri |-> redirect_uri,
      scope |-> scope,
      code_challenge |-> code_challenge,
      expires_at |-> now + AUTHORIZATION_CODE_LIFETIME,
      deleted_at |-> NULL ]

\* A lookup that forgets the tombstone filter (.where(deleted_at.is_(None))).
CodeLookup_IgnoresTombstone(code, client_id) ==
    ScalarOneOrNone({n \in DOMAIN codes : codes[n].code = code /\ codes[n].client_id = client_id})

\* A lookup that forgets the client binding (.where(client_id == client_id)).
CodeLookup_AnyClient(code, client_id) ==
    ScalarOneOrNone({n \in DOMAIN codes : codes[n].code = code /\ codes[n].deleted_at = NULL})

\* The SELECT of exchange_code.
CodeLookup(code, client_id) ==
    ScalarOneOrNone({n \in DOMAIN codes : codes[n].code = code /\ codes[n].client_id = client_id /\ codes[n].deleted_at = NULL})

\* exchange_code: "if auth_code.expires_at < datetime.utcnow()"
CodeExpired(r) == r.expires_at < now

\* A token row whose two lifetimes are swapped.
TokenRow_SwappedLifetimes(client_id, user_id, organization_id, scope) ==
    [ token_hash |-> Hash(Fresh("access")),
      client_id |-> client_id,
      user_id |-> user_id,
      organization_id |-> organization_id,
      scope |-> scope,
      expires_at |-> now + REFRESH_TOKEN_LIFETIME,
      refresh_token_hash |-> Some(Hash(Fresh("refresh"))),
      refresh_expires_at |-> Some(now + ACCESS_TOKEN_LIFETIME),
      deleted_at |-> NULL ]

\* The token row exchange_code and refresh_access_token add.
TokenRow(client_id, user_id, organization_id, scope) ==
    [ token_hash |-> Hash(Fresh("access")),
      client_id |-> client_id,
      user_id |-> user_id,
      organization_id |-> organization_id,
      scope |-> scope,
      expires_at |-> now + ACCESS_TOKEN_LIFETIME,
      refresh_token_hash |-> Some(Hash(Fresh("refresh"))),
      refresh_expires_at |-> Some(now + REFRESH_TOKEN_LIFETIME),
      deleted_at |-> NULL ]

\* The token response dict of exchange_code and refresh_access_token.
TokenResponse(scope) ==
    [ ok |-> TRUE,
      access_token |-> Fresh("access"),
      token_type |-> "Bearer",
      expires_in |-> ACCESS_TOKEN_LIFETIME,
      refresh_token |-> Fresh("refresh"),
      scope |-> scope ]

\* What a service call leaves: its return value and the committed tables.
Outcome(result, codes2, tokens2, origin2, drawn2) ==
    [ result |-> result, codes |-> codes2, tokens |-> tokens2,
      origin |-> origin2, drawn |-> drawn2 ]

Unchanged(result) == Outcome(result, codes, tokens, origin, drawn)

\* An exchange that binds the token to the client's organization instead of
\* the organization recorded on the code.
ExchangeFound_ClientOrg(r, client_id, code_verifier, redirect_uri) ==
    IF codes[r].expires_at < now
    THEN Outcome(NoResult, [codes EXCEPT ![r].deleted_at = Some(now)],
                 tokens, origin, drawn)
    ELSE IF ~VerifyPkceS256(code_verifier, codes[r].code_challenge)
    THEN Outcome(NoResult, codes, tokens, origin, drawn)
    ELSE IF codes[r].redirect_uri # redirect_uri
    THEN Outcome(NoResult, codes, tokens, origin, drawn)
    ELSE Outcome(TokenResponse(codes[r].scope),
                 [codes EXCEPT ![r].deleted_at = Some(now)],
                 Append(tokens,
                        TokenRow(client_id, codes[r].user_id,
                                 clients[CHOOSE c \in DOMAIN clients :
                                             clients[c].client_id = client_id].organization_id,
                                 codes[r].scope)),
                 Append(origin, [table |-> "codes", row |-> r]),
                 Draw(Draw(drawn, "access"), "refresh"))

\* An exchange that spends the code on a failed PKCE check.
ExchangeFound_BurnsOnMismatch(r, client_id, code_verifier, redirect_uri) ==
    IF CodeExpired(codes[r]) \/ ~VerifyPkceS256(code_verifier, codes[r].code_challenge)
    THEN Outcome(NoResult, [codes EXCEPT ![r].deleted_at = Some(now)],
                 tokens, origin, drawn)
    ELSE IF codes[r].redirect_uri # redirect_uri
    THEN Unchanged(NoResult)
    ELSE Outcome(TokenResponse(codes[r].scope),
                 [codes EXCEPT ![r].deleted_at = Some(now)],
                 Append(tokens, TokenRow(client_id, codes[r].user_id,
                                         codes[r].organization_id, codes[r].scope)),
                 Append(origin, [table |-> "codes", row |-> r]),
                 Draw(Draw(drawn, "access"), "refresh"))

\* exchange_code, from the committed state a code row r was read at.
ExchangeFound(r, client_id, code_verifier, redirect_uri) ==
    IF CodeExpired(codes[r])
    THEN Outcome(NoResult, [codes EXCEPT ![r].deleted_at = Some(now)],
                 tokens, origin, drawn)
    ELSE IF ~VerifyPkceS256(code_verifier, codes[r].code_challenge)
    THEN Unchanged(NoResult)
    ELSE IF codes[r].redirect_uri # redirect_uri
    THEN Unchanged(NoResult)
    ELSE Outcome(TokenResponse(codes[r].scope),
                 [codes EXCEPT ![r].deleted_at = Some(now)],
                 Append(tokens, TokenRow(client_id, codes[r].user_id,
                                         codes[r].organization_id, codes[r].scope)),
                 Append(origin, [table |-> "codes", row |-> r]),
                 Draw(Draw(drawn, "access"), "refresh"))

\* exchange_code
ExchangeCode(code, client_id, client_secret, code_verifier, redirect_uri) ==
    IF ValidateClient(client_id, client_secret) = 0 THEN Unchanged(NoResult)
    ELSE IF CodeLookup(code, client_id) = 0 THEN Unchanged(NoResult)
    ELSE ExchangeFound(CodeLookup(code, client_id), client_id, code_verifier,
                       redirect_uri)

\* A SELECT of refresh_access_token that matches either hash of the row.
RefreshLookup_EitherHash(refresh_token, client_id) ==
    ScalarOneOrNone({n \in DOMAIN tokens :
                        /\ \/ tokens[n].refresh_token_hash = Some(Hash(refresh_token))
                           \/ tokens[n].token_hash = Hash(refresh_token)
                        /\ tokens[n].client_id = client_id
                        /\ tokens[n].deleted_at = NULL})

\* A SELECT of refresh_access_token without the client_id condition.
RefreshLookup_AnyClient(refresh_token, client_id) ==
    ScalarOneOrNone({n \in DOMAIN tokens : tokens[n].refresh_token_hash = Some(Hash(refresh_token)) /\ tokens[n].deleted_at = NULL})

\* The SELECT of refresh_access_token.
RefreshLookup(refresh_token, client_id) ==
    ScalarOneOrNone({n \in DOMAIN tokens : tokens[n].refresh_token_hash = Some(Hash(refresh_token)) /\ tokens[n].client_id = client_id /\ tokens[n].deleted_at = NULL})

\* refresh_access_token: "if token_record.refresh_expires_at and
\* token_record.refresh_expires_at < datetime.utcnow()"
RefreshExpired(t) ==
    t.refresh_expires_at # NULL /\ t.refresh_expires_at[1] < now

\* A refresh that forgets to tombstone the row it replaces.
RefreshFound_KeepsOld(t, client_id) ==
    IF tokens[t].refresh_expires_at # NULL /\ tokens[t].refresh_expires_at[1] < now
    THEN Outcome(NoResult, codes, tokens, origin, drawn)
    ELSE Outcome(TokenResponse(tokens[t].scope),
                 codes,
                 Append(tokens,
                        TokenRow(client_id, tokens[t].user_id,
                                 tokens[t].organization_id, tokens[t].scope)),
                 Append(origin, [table |-> "tokens", row |-> t]),
                 Draw(Draw(drawn, "access"), "refresh"))

\* A refresh that mints the new row with the column default scope "mcp".
RefreshFound_DefaultScope(t, client_id) ==
    IF tokens[t].refresh_expires_at # NULL /\ tokens[t].refresh_expires_at[1] < now
    THEN Outcome(NoResult, codes, tokens, origin, drawn)
    ELSE Outcome(TokenResponse(tokens[t].scope),
                 codes,
                 Append([tokens EXCEPT ![t].deleted_at = Some(now)],
                        TokenRow(client_id, tokens[t].user_id,
                                 tokens[t].organization_id, "mcp")),
                 Append(origin, [table |-> "tokens", row |-> t]),
                 Draw(Draw(drawn, "access"), "refresh"))

\* refresh_access_token, from the committed state a token row t was read at.
RefreshFound(t, client_id) ==
    IF RefreshExpired(tokens[t]) THEN Unchanged(NoResult)
    ELSE Outcome(TokenResponse(tokens[t].scope),
                 codes,
                 Append([tokens EXCEPT ![t].deleted_at = Some(now)],
                        TokenRow(client_id, tokens[t].user_id,
                                 tokens[t].organization_id, tokens[t].scope)),
                 Append(origin, [table |-> "tokens", row |-> t]),
                 Draw(Draw(drawn, "access"), "refresh"))

\* refresh_access_token
RefreshAccessToken(refresh_token, client_id, client_secret) ==
    IF ValidateClient(client_id, client_secret) = 0 THEN Unchanged(NoResult)
    ELSE IF RefreshLookup(refresh_token, client_id) = 0 THEN Unchanged(NoResult)
    ELSE RefreshFound(RefreshLookup(refresh_token, client_id), client_id)

\* A SELECT of validate_access_token without the deleted_at condition.
AccessLookup_IgnoresTombstone(token) ==
    ScalarOneOrNone({n \in DOMAIN tokens : tokens[n].token_hash = Hash(token)})

\* The SELECT of validate_access_token.
AccessLookup(token) ==
    ScalarOneOrNone({n \in DOMAIN tokens : tokens[n].token_hash = Hash(token) /\ tokens[n].deleted_at = NULL})

\* validate_access_token: "if token_record.expires_at < datetime.utcnow()"
AccessExpired(t) == t.expires_at < now

\* The external user and organization tables, as the service finds them:
\* for each id, whether its row is live, tombstoned or absent.
DirectoryStates == {"live", "tombstoned", "missing"}

AllLive == [id \in Users \cup Orgs |-> "live"]

Directories ==
    { [AllLive EXCEPT !["u1"] = u, !["o1"] = o] : u \in DirectoryStates, o \in DirectoryStates }

\* select(User).where(User.id == id) and select(Organization).where(
\* Organization.id == id), then scalar_one_or_none(): is there a row
SelectById(directory, id) == directory[id] # "missing"

\* validate_access_token with the user and organization tables as given:
\* None, or <<user, organization>>.
ValidateAccessTokenAt(directory, token) ==
    IF ~StartsWith(token, ACCESS_TOKEN_PREFIX) THEN None
    ELSE IF AccessLookup(token) = 0 THEN None
    ELSE LET t == tokens[AccessLookup(token)] IN
         IF AccessExpired(t) THEN None
         ELSE IF ~SelectById(directory, t.user_id) THEN None
         ELSE IF ~SelectById(directory, t.organization_id) THEN None
         ELSE <<t.user_id, t.organization_id>>

\* validate_access_token while every user and organization row is live:
\* None, or <<user, organization>>.
ValidateAccessToken(token) == ValidateAccessTokenAt(AllLive, token)

-----------------------------------------------------------------------------
(* Route handlers (routes/oauth_server.py): the response of each, and the  *)
(* request as one step on the store                                        *)

\* dict.get(key, default) on an optional field
Get(field, default) == IF field = None THEN default ELSE field[1]

\* Python's "not x" on an optional string: None or ""
Falsy(field) == field = None \/ field = Some("")

\* POST /api/oauth/clients: the response
CreateClientResponse(redirect_uris) ==
    [ status |-> 200,
      id |-> Len(clients) + 1,
      client_id |-> Fresh("client"),
      client_secret |-> Fresh("secret"),
      name |-> "Claude Web",
      redirect_uris |-> Get(redirect_uris, CLAUDE_REDIRECT_URIS) ]

\* POST /api/oauth/clients, as session s (user, organization)
CreateClient(s, redirect_uris) ==
    /\ Len(clients) < MaxClients
    /\ clients' = Append(clients, CreateClientRow(s[2], redirect_uris))
    /\ drawn' = Draw(Draw(drawn, "client"), "secret")
    /\ UNCHANGED <<codes, tokens, origin, now, ticks, proc>>

\* GET /api/oauth/clients, as session s: the response
ListClientsResponse(s) == [status |-> 200, body |-> ListClients(s[2])]

\* GET /api/oauth/clients/{client_id}/info (no session): the response
GetClientInfoResponse(client_id) ==
    IF GetClientInfo(client_id) = None
    THEN [status |-> 404, detail |-> "Client not found"]
    ELSE [status |-> 200, body |-> GetClientInfo(client_id)[1]]

\* GET /api/oauth/clients: reads only
ListClientsEndpoint(s) == UNCHANGED vars

\* GET /api/oauth/clients/{client_id}/info: reads only
GetClientInfoEndpoint(client_id) == UNCHANGED vars

\* A SELECT by id that does not look at the organization.
OwnedClientLookup_AnyOrg(client_db_id, organization_id) ==
    ScalarOneOrNone({i \in DOMAIN clients :
        /\ clients[i].id = client_db_id
        /\ clients[i].deleted_at = NULL})

\* A SELECT by id and organization without the deleted_at IS NULL filter.
OwnedClientLookup_IgnoresTombstone(client_db_id, organization_id) ==
    ScalarOneOrNone({i \in DOMAIN clients :
        /\ clients[i].id = client_db_id
        /\ clients[i].organization_id = organization_id})

\* The SELECT of delete_client and rotate_client_secret.
OwnedClientLookup(client_db_id, organization_id) ==
    ScalarOneOrNone({i \in DOMAIN clients :
        /\ clients[i].id = client_db_id
        /\ clients[i].organization_id = organization_id
        /\ clients[i].deleted_at = NULL})

\* DELETE /api/oauth/clients/{client_db_id}: the response status
DeleteClientStatus(s, client_db_id) ==
    IF OwnedClientLookup(client_db_id, s[2]) = 0 THEN 404 ELSE 200

\* delete_client: the clients table it leaves, row c being the row its
\* SELECT found (0: none, it returns False and writes nothing)
DeleteClientRows(c) ==
    IF c = 0 THEN clients
    ELSE [clients EXCEPT ![c].deleted_at = Some(now)]

\* A delete that also revokes the token rows issued to the client.
DeleteClient_RevokesTokens(s, client_db_id) ==
    LET c == OwnedClientLookup(client_db_id, s[2]) IN
    /\ clients' = DeleteClientRows(c)
    /\ tokens' = [t \in DOMAIN tokens |->
                      IF c # 0 /\ tokens[t].client_id = clients[c].client_id
                                /\ tokens[t].deleted_at = NULL
                      THEN [tokens[t] EXCEPT !.deleted_at = Some(now)]
                      ELSE tokens[t]]
    /\ UNCHANGED <<codes, origin, drawn, now, ticks, proc>>

\* DELETE /api/oauth/clients/{client_db_id}, as session s
DeleteClient(s, client_db_id) ==
    LET c == OwnedClientLookup(client_db_id, s[2]) IN
    /\ clients' = DeleteClientRows(c)
    /\ UNCHANGED <<codes, tokens, origin, drawn, now, ticks, proc>>

\* A rotate_client_secret whose UPDATE has no WHERE: every row gets the hash.
RotateClientSecretRows_EveryClient(c) ==
    IF c = 0 THEN clients
    ELSE [n \in DOMAIN clients |->
             [clients[n] EXCEPT !.client_secret_hash = Hash(Fresh("secret"))]]

\* A rotate_client_secret that returns the new secret and stores nothing.
RotateClientSecretRows_NotStored(c) == clients

\* rotate_client_secret: the clients table it commits, row c being the row
\* its SELECT found (0: none, nothing is written)
RotateClientSecretRows(c) ==
    IF c = 0 THEN clients
    ELSE [clients EXCEPT ![c].client_secret_hash = Hash(Fresh("secret"))]

\* POST /api/oauth/clients/{client_db_id}/rotate: the response
RotateClientSecretResponse(s, client_db_id) ==
    LET c == OwnedClientLookup(client_db_id, s[2]) IN
    IF c = 0 THEN [status |-> 404, detail |-> "Client not found"]
    ELSE [ status |-> 200,
           id |-> clients[c].id,
           client_id |-> clients[c].client_id,
           client_secret |-> Fresh("secret"),
           name |-> clients[c].name ]

\* POST /api/oauth/clients/{client_db_id}/rotate, as session s
RotateClientSecret(s, client_db_id) ==
    LET c == OwnedClientLookup(client_db_id, s[2]) IN
    /\ drawn["secret"] - Len(clients) < MaxRotations
    /\ clients' = RotateClientSecretRows(c)
    /\ drawn' = IF c = 0 THEN drawn ELSE Draw(drawn, "secret")
    /\ UNCHANGED <<codes, tokens, origin, now, ticks, proc>>

\* The JSON bodies of POST /api/oauth/authorize: every required field
\* present, or one of them missing or empty.
AuthorizeBodies ==
    [ client_id : {Some(c) : c \in ClientIdInputs},
      redirect_uri : {Some(u) : u \in UriInputs},
      scope : {None, Some("claudeai")},
      code_challenge : {Some(S256(GoldenVerifier))},
      code_challenge_method : {None, Some("S256"), Some("plain")} ]
    \cup
    [ client_id : {None},
      redirect_uri : {Some(CLAUDE_REDIRECT_URIS[1])},
      scope : {None},
      code_challenge : {Some(S256(GoldenVerifier))},
      code_challenge_method : {Some("S256")} ]
    \cup
    [ client_id : {Some(c) : c \in ClientIdInputs},
      redirect_uri : {None, Some("")},
      scope : {None},
      code_challenge : {Some(S256(GoldenVerifier))},
      code_challenge_method : {Some("S256")} ]
    \cup
    [ client_id : {Some(c) : c \in ClientIdInputs},
      redirect_uri : {Some(CLAUDE_REDIRECT_URIS[1])},
      scope : {None},
      code_challenge : {None, Some("")},
      code_challenge_method : {None, Some("S256")} ]

\* authorize_approve: "ok", or the detail of the 400 it raises
AuthorizeCheck(body) ==
    IF body.client_id = None \/ Falsy(body.redirect_uri) \/ Falsy(body.code_challenge)
    THEN "Missing required parameters"
    ELSE IF Get(body.code_challenge_method, "S256") # "S256"
    THEN "Only S256 code_challenge_method is supported"
    ELSE IF ValidateClient(body.client_id[1], None) = 0
    THEN "Invalid client_id"
    ELSE IF ~ValidateRedirectUri(ValidateClient(body.client_id[1], None),
                                 body.redirect_uri[1])
    THEN "Invalid redirect_uri"
    ELSE "ok"

\* authorize_approve: the code row it has create_authorization_code add
AuthorizeCodeRow(s, body) ==
    CreateAuthorizationCodeRow(body.client_id[1], s[1], s[2], body.redirect_uri[1],
                               Get(body.scope, "mcp"), body.code_challenge[1])

\* POST /api/oauth/authorize: the response
AuthorizeResponse(body) ==
    IF AuthorizeCheck(body) = "ok"
    THEN [status |-> 200, code |-> Fresh("code")]
    ELSE [status |-> 400, detail |-> AuthorizeCheck(body)]

\* authorize_approve: the code table the request leaves
AuthorizeCodes(s, body) ==
    IF AuthorizeCheck(body) = "ok"
    THEN Append(codes, AuthorizeCodeRow(s, body))
    ELSE codes

\* POST /api/oauth/authorize, as session s (user, organization)
AuthorizeApprove(s, body) ==
    /\ Len(codes) < MaxCodes
    /\ codes' = AuthorizeCodes(s, body)
    /\ drawn' = IF AuthorizeCheck(body) = "ok" THEN Draw(drawn, "code") ELSE drawn
    /\ UNCHANGED <<clients, tokens, origin, now, ticks, proc>>

\* The form bodies of POST /api/oauth/token with grant_type=authorization_code:
\* every field present, or one of code, code_verifier, redirect_uri missing.
CodeGrantForms ==
    [ code : {Some(c) : c \in CodeInputs},
      redirect_uri : {Some(u) : u \in UriInputs},
      client_id : ClientIdInputs,
      client_secret : SecretInputs,
      code_verifier : {Some(v) : v \in VerifierInputs} ]
    \cup
    { [ code |-> f[1], redirect_uri |-> f[2], client_id |-> <<CLIENT_ID_PREFIX, 1>>,
        client_secret |-> None, code_verifier |-> f[3] ] :
      f \in { <<None, Some(CLAUDE_REDIRECT_URIS[1]), Some(GoldenVerifier)>>,
              <<Some(<<CODE_PREFIX, 1>>), None, Some(GoldenVerifier)>>,
              <<Some(<<CODE_PREFIX, 1>>), Some(CLAUDE_REDIRECT_URIS[1]), None>>,
              <<Some(<<CODE_PREFIX, 1>>), Some(CLAUDE_REDIRECT_URIS[1]), Some("")>> } }

\* The form bodies of POST /api/oauth/token with grant_type=refresh_token
RefreshGrantForms ==
    [ refresh_token : {None} \cup {Some(t) : t \in RefreshInputs},
      client_id : ClientIdInputs,
      client_secret : SecretInputs ]

\* token_endpoint: the JSONResponse for a service result
TokenResponseOf(result) ==
    IF result.ok
    THEN [status |-> 200, body |-> result]
    ELSE [status |-> 400, body |-> [error |-> "invalid_grant"]]

InvalidRequest == [status |-> 400, body |-> [error |-> "invalid_request"]]

UnsupportedGrantType == [status |-> 400, body |-> [error |-> "unsupported_grant_type"]]

\* token_endpoint, grant_type=authorization_code: what the request leaves
CodeGrantOutcome(form) ==
    IF Falsy(form.code) \/ Falsy(form.code_verifier) \/ Falsy(form.redirect_uri)
    THEN Unchanged(NoResult)
    ELSE ExchangeCode(form.code[1], form.client_id, form.client_secret,
                      form.code_verifier[1], form.redirect_uri[1])

\* A token endpoint that answers invalid_client when the client does not
\* validate.
CodeGrantResponse_InvalidClient(form) ==
    IF Falsy(form.code) \/ Falsy(form.code_verifier) \/ Falsy(form.redirect_uri)
    THEN InvalidRequest
    ELSE IF ValidateClient(form.client_id, form.client_secret) = 0
    THEN [status |-> 401, body |-> [error |-> "invalid_client"]]
    ELSE TokenResponseOf(CodeGrantOutcome(form).result)

\* token_endpoint, grant_type=authorization_code: the response
CodeGrantResponse(form) ==
    IF Falsy(form.code) \/ Falsy(form.code_verifier) \/ Falsy(form.redirect_uri)
    THEN InvalidRequest
    ELSE TokenResponseOf(CodeGrantOutcome(form).result)

\* token_endpoint, grant_type=refresh_token: what the request leaves
RefreshGrantOutcome(form) ==
    IF Falsy(form.refresh_token)
    THEN Unchanged(NoResult)
    ELSE RefreshAccessToken(form.refresh_token[1], form.client_id, form.client_secret)

\* token_endpoint, grant_type=refresh_token: the response
RefreshGrantResponse(form) ==
    IF Falsy(form.refresh_token)
    THEN InvalidRequest
    ELSE TokenResponseOf(RefreshGrantOutcome(form).result)

\* A commit that persists the tombstone of the code and loses the token row.
Commit_TombstoneOnly(out) ==
    /\ codes' = out.codes
    /\ tokens' = tokens
    /\ origin' = origin
    /\ drawn' = drawn

\* await db.commit()
Commit(out) ==
    /\ codes' = out.codes
    /\ tokens' = out.tokens
    /\ origin' = out.origin
    /\ drawn' = out.drawn

\* POST /api/oauth/token, grant_type=authorization_code
TokenCodeGrant(form) ==
    /\ Len(tokens) < MaxTokens
    /\ Commit(CodeGrantOutcome(form))
    /\ UNCHANGED <<clients, now, ticks, proc>>

\* POST /api/oauth/token, grant_type=refresh_token
TokenRefreshGrant(form) ==
    /\ Len(tokens) < MaxTokens
    /\ Commit(RefreshGrantOutcome(form))
    /\ UNCHANGED <<clients, now, ticks, proc>>

\* POST /api/oauth/token with any other grant_type: unsupported_grant_type
TokenOtherGrant == UNCHANGED vars

\* A bearer presented to validate_access_token (step 3a of mcp_auth): reads only
ValidateBearer(directory, token) == UNCHANGED vars

-----------------------------------------------------------------------------
(* MCP routes (routes/mcp.py): the auth dispatcher mcp_auth, the           *)
(* MCP-enabled check and the three endpoints.  A request is answered from  *)
(* the store as it stands; the handlers write nothing to the three tables. *)
(* Each handler yields its response and the trace of the calls it made to  *)
(* its collaborators, in order.                                            *)

MCP_PROTOCOL_VERSION == "2025-06-18"

API_KEY_PREFIX == "bow_"

\* ApiKeyService (external): the keys it knows.  Key 1 and key 2 resolve a
\* user and an organization, key 3 a user but no organization; any other
\* value resolves nothing.
GetUserByApiKey(key) ==
    IF key[1] # API_KEY_PREFIX THEN None
    ELSE CASE key[2] = 1 -> Some("u2")
           [] key[2] = 2 -> Some("u1")
           [] key[2] = 3 -> Some("u1")
           [] OTHER -> None

GetOrganizationByApiKey(key) ==
    IF key[1] # API_KEY_PREFIX THEN None
    ELSE CASE key[2] = 1 -> Some("o1")
           [] key[2] = 2 -> Some("o2")
           [] OTHER -> None

\* One call to a collaborator.
Call(svc, arg) == [svc |-> svc, arg |-> arg]

\* What a step of mcp_auth yields: a (user, organization) pair or None, and
\* the calls it made.
Tried(pair, calls) == [pair |-> pair, calls |-> calls]

\* svc.get_user_by_api_key, then svc.get_organization_by_api_key when a
\* user was found (mcp_auth steps 2 and 3b)
TryApiKey(key) ==
    IF GetUserByApiKey(key) = None
    THEN Tried(None, <<Call("get_user_by_api_key", key)>>)
    ELSE IF GetOrganizationByApiKey(key) = None
    THEN Tried(None, <<Call("get_user_by_api_key", key),
                       Call("get_organization_by_api_key", key)>>)
    ELSE Tried(<<GetUserByApiKey(key)[1], GetOrganizationByApiKey(key)[1]>>,
               <<Call("get_user_by_api_key", key),
                 Call("get_organization_by_api_key", key)>>)

\* A test that forgets to exclude the OAuth prefix.
ApiKeyShaped_AnyBow(cred) == StartsWith(cred, API_KEY_PREFIX)

\* x.startswith("bow_") and not x.startswith("bow_oauth_")
ApiKeyShaped(cred) ==
    StartsWith(cred, API_KEY_PREFIX) /\ ~StartsWith(cred, ACCESS_TOKEN_PREFIX)

\* mcp_auth step 1: the JWT session; an HTTPException of
\* get_current_organization (org = None) is swallowed.
TrySession(req) ==
    IF req.jwt_user = None THEN Tried(None, <<>>)
    ELSE IF req.org = None
    THEN Tried(None, <<Call("get_current_organization", req.jwt_user[1])>>)
    ELSE Tried(<<req.jwt_user[1], req.org[1]>>,
               <<Call("get_current_organization", req.jwt_user[1])>>)

\* mcp_auth step 2: the X-API-Key header
TryHeaderKey(req) ==
    IF req.api_key # None /\ ApiKeyShaped(req.api_key[1])
    THEN TryApiKey(req.api_key[1])
    ELSE Tried(None, <<>>)

\* mcp_auth step 3a: an OAuth access token as the Bearer token
TryOAuthBearer(token) ==
    IF StartsWith(token, ACCESS_TOKEN_PREFIX)
    THEN Tried(ValidateAccessToken(token), <<Call("validate_access_token", token)>>)
    ELSE Tried(None, <<>>)

\* mcp_auth step 3: the Authorization header, <<scheme, token>>
TryBearer(req) ==
    IF req.authorization = None \/ req.authorization[1][1] # "Bearer "
    THEN Tried(None, <<>>)
    ELSE LET token == req.authorization[1][2]
             oauth == TryOAuthBearer(token)
             key == TryApiKey(token)
         IN IF oauth.pair # None THEN oauth
            ELSE IF ApiKeyShaped(token)
            THEN Tried(key.pair, oauth.calls \o key.calls)
            ELSE Tried(None, oauth.calls)

\* A dispatcher that tries the Authorization header before the session and
\* the API-key header.
McpAuth_BearerFirst(req) ==
    IF TryBearer(req).pair # None THEN TryBearer(req)
    ELSE IF TrySession(req).pair # None
    THEN Tried(TrySession(req).pair, TryBearer(req).calls \o TrySession(req).calls)
    ELSE Tried(TryHeaderKey(req).pair,
               TryBearer(req).calls \o TrySession(req).calls \o TryHeaderKey(req).calls)

\* mcp_auth: the pair it returns (None: it raises the 401), and its calls
McpAuth(req) ==
    LET session == TrySession(req)
        header == TryHeaderKey(req)
        bearer == TryBearer(req)
    IN IF session.pair # None THEN session
       ELSE IF header.pair # None
       THEN Tried(header.pair, session.calls \o header.calls)
       ELSE Tried(bearer.pair, session.calls \o header.calls \o bearer.calls)

\* str.rstrip("/") on the base URLs of the model
RStripSlash(url) ==
    CASE url = "https://bow.example.com/" -> "https://bow.example.com"
      [] url = "https://bow.example.com//" -> "https://bow.example.com"
      [] OTHER -> url

\* A _resource_metadata_url that keeps the trailing slash of the base URL.
ResourceMetadataUrl_KeepSlash(env) ==
    IF env.base_url # None /\ env.base_url # Some("") /\ env.base_url # Some("http://0.0.0.0:3000")
    THEN <<env.base_url[1], "/.well-known/oauth-protected-resource">>
    ELSE <<env.origin, "/.well-known/oauth-protected-resource">>

\* _resource_metadata_url: <<base, path>> stands for f"{base}{path}"
ResourceMetadataUrl(env) ==
    IF env.base_url # None /\ env.base_url # Some("") /\ env.base_url # Some("http://0.0.0.0:3000")
    THEN <<RStripSlash(env.base_url[1]), "/.well-known/oauth-protected-resource">>
    ELSE <<env.origin, "/.well-known/oauth-protected-resource">>

NoHeaders == [h \in {} |-> ""]

\* mcp_auth: the HTTPException it raises when no scheme succeeded
NotAuthenticated(env) ==
    [ status |-> 401,
      detail |-> "Not authenticated",
      headers |-> [h \in {"WWW-Authenticate"} |->
                      <<"Bearer resource_metadata=", ResourceMetadataUrl(env)>>] ]

\* _check_mcp_enabled: organization.settings exists, it has an mcp_enabled
\* config, and the config's value is truthy
McpEnabled(settings) ==
    IF settings = "no_settings" THEN FALSE
    ELSE IF settings = "no_config" THEN FALSE
    ELSE IF settings = "value_false" THEN FALSE
    ELSE TRUE

\* _check_mcp_enabled: the HTTPException it raises
NotEnabled ==
    [ status |-> 403,
      detail |-> "MCP integration is not enabled for this organization",
      headers |-> NoHeaders ]

\* _mcp_response
McpResponse(content) ==
    [ status |-> 200,
      headers |-> [h \in {"MCP-Protocol-Version"} |-> MCP_PROTOCOL_VERSION],
      body |-> content ]

\* jsonrpc_response, jsonrpc_error
JsonrpcResponse(id, result) == [jsonrpc |-> "2.0", id |-> id, result |-> result]

JsonrpcError(id, code, message) ==
    [jsonrpc |-> "2.0", id |-> id, error |-> [code |-> code, message |-> message]]

\* The server-info payload of GET /api/mcp and of initialize
ServerInfo ==
    [ protocolVersion |-> MCP_PROTOCOL_VERSION,
      serverInfo |-> [name |-> "bagofwords", version |-> "1.0.0"],
      capabilities |-> [tools |-> NoHeaders] ]

\* The tool registry (external): list_mcp_tools, get_mcp_tool
ToolNames == {"create_report"}

\* What a request handler yields: the response, and the calls it made.
Handled(response, trace) == [response |-> response, trace |-> trace]

\* Depends(mcp_auth) raised, or _check_mcp_enabled(organization) raised:
\* auth is what mcp_auth yielded
Rejected(auth, env) == auth.pair = None \/ ~McpEnabled(env.settings)

Rejection(auth, env) ==
    IF auth.pair = None
    THEN Handled(NotAuthenticated(env), auth.calls)
    ELSE Handled(NotEnabled, auth.calls \o <<Call("_check_mcp_enabled", auth.pair[2])>>)

\* The calls of a request that passed both
PassedTrace(auth) == auth.calls \o <<Call("_check_mcp_enabled", auth.pair[2])>>

\* mcp_get_endpoint, auth being what Depends(mcp_auth) yielded
McpGetHandled(auth, env) ==
    IF Rejected(auth, env) THEN Rejection(auth, env)
    ELSE Handled(McpResponse([jsonrpc |-> "2.0", result |-> ServerInfo]),
                 PassedTrace(auth))

\* get_tools_rest
GetToolsHandled(auth, env) ==
    IF Rejected(auth, env) THEN Rejection(auth, env)
    ELSE Handled([status |-> 200, headers |-> NoHeaders, body |-> [tools |-> ToolNames]],
                 PassedTrace(auth) \o <<Call("list_mcp_tools", None)>>)

\* What tool.execute does, by the exec field of the request: it returns a
\* dict of JSON values, it returns a value json cannot encode (the
\* interface is "execute(...) -> any"), or it raises.
ToolExecute(exec) ==
    IF exec = "returns" THEN [returned |-> TRUE, value |-> <<"dict", "report_id">>]
    ELSE IF exec = "returns_object" THEN [returned |-> TRUE, value |-> <<"object", "datetime">>]
    ELSE [returned |-> FALSE, value |-> <<"Exception", "tool failed">>]

\* json.dumps(result): the text, or the TypeError it raises
JsonDumps(value) ==
    IF value[1] = "dict"
    THEN [returned |-> TRUE, value |-> <<"json", value[2]>>]
    ELSE [returned |-> FALSE,
          value |-> <<"TypeError", "Object of type datetime is not JSON serializable">>]

\* The try block of tools/call: execute, then json.dumps of what it returned
TryExecute(exec) ==
    IF ToolExecute(exec).returned THEN JsonDumps(ToolExecute(exec).value) ELSE ToolExecute(exec)

\* str(e)
Str(e) == e[2]

\* mcp_endpoint, method tools/call, as (user, organization) auth
ToolsCall(auth, body) ==
    IF Falsy(body.name)
    THEN Handled(McpResponse(JsonrpcError(body.id, -32602, <<"Missing tool name">>)), <<>>)
    ELSE IF body.name[1] \notin ToolNames
    THEN Handled(McpResponse(JsonrpcError(body.id, -32602, <<"Unknown tool: ", body.name[1]>>)),
                 <<Call("get_mcp_tool", body.name[1])>>)
    ELSE Handled(McpResponse(JsonrpcResponse(body.id,
                     [ content |-> <<[ type |-> "text",
                                      text |-> IF TryExecute(body.exec).returned
                                               THEN TryExecute(body.exec).value
                                               ELSE Str(TryExecute(body.exec).value) ]>>,
                       isError |-> ~TryExecute(body.exec).returned ])),
                 <<Call("get_mcp_tool", body.name[1]),
                   Call("tool.execute", <<body.name[1], auth[1], auth[2]>>)>>)

\* A dispatch that answers an unknown method as an invalid request.
Dispatch_UnknownIsInvalid(auth, body) ==
    IF body.kind = "unparseable"
    THEN Handled(McpResponse(JsonrpcError(None, -32700, <<"Parse error: ">>)),
                 <<Call("raw_request.json", None)>>)
    ELSE IF body.kind = "invalid"
    THEN Handled(McpResponse(JsonrpcError(None, -32600, <<"Invalid request: ">>)),
                 <<Call("raw_request.json", None)>>)
    ELSE IF body.method = "initialize"
    THEN Handled(McpResponse(JsonrpcResponse(body.id, ServerInfo)),
                 <<Call("raw_request.json", None)>>)
    ELSE IF body.method = "tools/list"
    THEN Handled(McpResponse(JsonrpcResponse(body.id, [tools |-> ToolNames])),
                 <<Call("raw_request.json", None), Call("list_mcp_tools", None)>>)
    ELSE IF body.method = "tools/call"
    THEN Handled(ToolsCall(auth, body).response,
                 <<Call("raw_request.json", None)>> \o ToolsCall(auth, body).trace)
    ELSE Handled(McpResponse(JsonrpcError(None, -32600, <<"Invalid request: ", body.method>>)),
                 <<Call("raw_request.json", None)>>)

\* mcp_endpoint after the two checks, as (user, organization) auth
Dispatch(auth, body) ==
    IF body.kind = "unparseable"
    THEN Handled(McpResponse(JsonrpcError(None, -32700, <<"Parse error: ">>)),
                 <<Call("raw_request.json", None)>>)
    ELSE IF body.kind = "invalid"
    THEN Handled(McpResponse(JsonrpcError(None, -32600, <<"Invalid request: ">>)),
                 <<Call("raw_request.json", None)>>)
    ELSE IF body.method = "initialize"
    THEN Handled(McpResponse(JsonrpcResponse(body.id, ServerInfo)),
                 <<Call("raw_request.json", None)>>)
    ELSE IF body.method = "tools/list"
    THEN Handled(McpResponse(JsonrpcResponse(body.id, [tools |-> ToolNames])),
                 <<Call("raw_request.json", None), Call("list_mcp_tools", None)>>)
    ELSE IF body.method = "tools/call"
    THEN Handled(ToolsCall(auth, body).response,
                 <<Call("raw_request.json", None)>> \o ToolsCall(auth, body).trace)
    ELSE Handled(McpResponse(JsonrpcError(body.id, -32601, <<"Method not found: ", body.method>>)),
                 <<Call("raw_request.json", None)>>)

\* An mcp_endpoint that reads the body before it checks the organization.
McpPostHandled_ParseFirst(auth, env, body) ==
    IF auth.pair = None THEN Rejection(auth, env)
    ELSE IF body.kind = "unparseable" \/ ~McpEnabled(env.settings)
    THEN Handled(IF body.kind = "unparseable"
                 THEN McpResponse(JsonrpcError(None, -32700, <<"Parse error: ">>))
                 ELSE NotEnabled,
                 auth.calls \o <<Call("raw_request.json", None)>>)
    ELSE LET rest == Dispatch(auth.pair, body) IN
         Handled(rest.response, PassedTrace(auth) \o rest.trace)

\* mcp_endpoint
McpPostHandled(auth, env, body) ==
    IF Rejected(auth, env) THEN Rejection(auth, env)
    ELSE LET rest == Dispatch(auth.pair, body) IN
         Handled(rest.response, PassedTrace(auth) \o rest.trace)

\* The requests to the MCP endpoints: the session the JWT dependency
\* resolved (jwt_user) and the organization get_current_organization then
\* selects (None: it raises), the X-API-Key header, the Authorization header.
HeaderKeyInputs ==
    { None, Some(<<API_KEY_PREFIX, 1>>), Some(<<API_KEY_PREFIX, 3>>),
      Some(<<API_KEY_PREFIX, 0>>), Some(<<ACCESS_TOKEN_PREFIX, 1>>), Some(<<"sk_", 1>>) }

AuthorizationInputs ==
    {None}
    \cup {Some(<<"Bearer ", t>>) :
             t \in Creds("access") \cup { <<API_KEY_PREFIX, 2>>, <<API_KEY_PREFIX, 3>>,
                                          <<REFRESH_TOKEN_PREFIX, 1>>, <<"sk_", 1>> }}
    \cup {Some(<<"Basic ", <<API_KEY_PREFIX, 2>>>>),
          Some(<<"bearer ", <<ACCESS_TOKEN_PREFIX, 1>>>>)}

McpRequests ==
    { r \in [ jwt_user : {None, Some("u1")},
              org : {None, Some("o1")},
              api_key : HeaderKeyInputs,
              authorization : AuthorizationInputs ] :
        r.jwt_user = None => r.org = None }

\* The configured public base URL, the request's own origin, and the
\* settings of the authenticated organization.
BaseUrls ==
    { None, Some(""), Some("http://0.0.0.0:3000"),
      Some("https://bow.example.com"), Some("https://bow.example.com/") }

SettingsStates == {"no_settings", "no_config", "value_false", "value_true"}

Envs == [base_url : BaseUrls, origin : {"http://testserver"}, settings : SettingsStates]

\* The bodies of POST /api/mcp: not JSON, not a JSON-RPC request, or a
\* request (for tools/call: the tool named, and what its execute does).
PostBodies ==
    [ kind : {"unparseable", "invalid"}, id : {None}, method : {""},
      name : {None}, exec : {"returns"} ]
    \cup
    [ kind : {"rpc"}, id : {None, Some(7)},
      method : {"initialize", "tools/list", "resources/list"},
      name : {None}, exec : {"returns"} ]
    \cup
    [ kind : {"rpc"}, id : {Some(7)}, method : {"tools/call"},
      name : {None, Some(""), Some("no_such_tool")}, exec : {"returns"} ]
    \cup
    [ kind : {"rpc"}, id : {Some(7)}, method : {"tools/call"},
      name : {Some("create_report")}, exec : {"returns", "returns_object", "raises"} ]

\* The requests that present nothing but an Authorization header: what the
\* steps of Next range over (the handlers write nothing to the store,
\* whatever the request, the base URL and the organization's settings).
BearerOnly ==
    [jwt_user : {None}, org : {None}, api_key : {None}, authorization : AuthorizationInputs]

\* GET /api/mcp, POST /api/mcp, GET /api/mcp/tools: the store is only read
McpGetEndpoint(req) == UNCHANGED vars

McpEndpoint(req, body) == UNCHANGED vars

GetToolsRest(req) == UNCHANGED vars

\* Time passes: the clock moves on to an instant at which a live row
\* expires, or to the second after it (utcnow() is only ever compared with
\* the expires_at of a row).
Landmarks ==
    LET at == {codes[i].expires_at : i \in {n \in DOMAIN codes : codes[n].deleted_at = NULL}}
              \cup {tokens[i].expires_at :
                        i \in {n \in DOMAIN tokens : tokens[n].deleted_at = NULL}}
              \cup {tokens[i].refresh_expires_at[1] :
                        i \in {n \in DOMAIN tokens : tokens[n].deleted_at = NULL}}
    IN at \cup {t + 1 : t \in at}

Tick(t) ==
    /\ ticks < MaxTicks
    /\ t > now
    /\ now' = t
    /\ ticks' = ticks + 1
    /\ UNCHANGED <<clients, codes, tokens, origin, drawn, proc>>

Next ==
    \/ \E s \in Sessions : CreateClient(s, None)
    \/ \E s \in Sessions : ListClientsEndpoint(s)
    \/ \E client_id \in ClientIdInputs : GetClientInfoEndpoint(client_id)
    \/ \E s \in Sessions, id \in 1..MaxClients : DeleteClient(s, id)
    \/ \E s \in Sessions, body \in AuthorizeBodies : AuthorizeApprove(s, body)
    \/ \E form \in CodeGrantForms : TokenCodeGrant(form)
    \/ \E form \in RefreshGrantForms : TokenRefreshGrant(form)
    \/ TokenOtherGrant
    \/ \E directory \in Directories, token \in BearerInputs : ValidateBearer(directory, token)
    \/ \E req \in BearerOnly : McpGetEndpoint(req)
    \/ \E req \in BearerOnly, body \in PostBodies : McpEndpoint(req, body)
    \/ \E req \in BearerOnly : GetToolsRest(req)
    \/ \E t \in Landmarks : Tick(t)

Spec == Init /\ [][Next]_vars

\* The same program with the secret of a client rotated up to MaxRotations
\* times.
NextRotate ==
    \/ Next
    \/ \E s \in Sessions, id \in 1..MaxClients : RotateClientSecret(s, id)

SpecRotate == Init /\ [][NextRotate]_vars

-----------------------------------------------------------------------------
(* Concurrent token requests.  exchange_code and refresh_access_token      *)
(* suspend at each await: after validate_client's SELECT, after their own  *)
(* SELECT, and at db.commit().  A worker holds the row it read; its commit *)
(* writes that row's deleted_at (UPDATE ... WHERE id = row) and inserts    *)
(* the token row, on whatever the store then holds.                        *)

\* The well-formed token requests of the issued credentials.
RaceCodeForms ==
    [ code : {Some(c) : c \in Creds("code") \ {<<CODE_PREFIX, 0>>}},
      redirect_uri : {Some(CLAUDE_REDIRECT_URIS[1])},
      client_id : ClientIdInputs \ {<<CLIENT_ID_PREFIX, 0>>},
      client_secret : {None},
      code_verifier : {Some(GoldenVerifier)} ]

RaceRefreshForms ==
    [ refresh_token : {Some(t) : t \in RefreshInputs \ {<<REFRESH_TOKEN_PREFIX, 0>>}},
      client_id : ClientIdInputs \ {<<CLIENT_ID_PREFIX, 0>>},
      client_secret : {None} ]

StoreUnchanged == UNCHANGED <<clients, codes, tokens, origin, drawn, now, ticks>>

Done(q, result) ==
    [pc |-> "done", grant |-> q.grant, form |-> q.form, result |-> result]

\* token_endpoint receives a request and calls the service method.
StartCodeGrant(p, form) ==
    /\ proc[p].pc = "idle"
    /\ proc' = [proc EXCEPT ![p] =
                   [pc |-> "validate", grant |-> "authorization_code", form |-> form]]
    /\ StoreUnchanged

StartRefreshGrant(p, form) ==
    /\ proc[p].pc = "idle"
    /\ proc' = [proc EXCEPT ![p] =
                   [pc |-> "validate", grant |-> "refresh_token", form |-> form]]
    /\ StoreUnchanged

\* client = await self.validate_client(db, client_id, client_secret)
StepValidate(p) ==
    /\ proc[p].pc = "validate"
    /\ proc' = [proc EXCEPT ![p] =
                   IF ValidateClient(proc[p].form.client_id, proc[p].form.client_secret) = 0
                   THEN Done(@, NoResult)
                   ELSE [@ EXCEPT !.pc = "lookup"]]
    /\ StoreUnchanged

\* result = await db.execute(select(...)); row = result.scalar_one_or_none()
LookupOf(q) ==
    IF q.grant = "authorization_code"
    THEN CodeLookup(q.form.code[1], q.form.client_id)
    ELSE RefreshLookup(q.form.refresh_token[1], q.form.client_id)

StepLookup(p) ==
    /\ proc[p].pc = "lookup"
    /\ proc' = [proc EXCEPT ![p] =
                   IF LookupOf(proc[p]) = 0
                   THEN Done(@, NoResult)
                   ELSE [pc |-> "commit", grant |-> @.grant, form |-> @.form,
                         row |-> LookupOf(proc[p])]]
    /\ StoreUnchanged

\* The checks after the SELECT, the writes, and await db.commit()
FinishOf(q) ==
    IF q.grant = "authorization_code"
    THEN ExchangeFound(q.row, q.form.client_id, q.form.code_verifier[1],
                       q.form.redirect_uri[1])
    ELSE RefreshFound(q.row, q.form.client_id)

StepCommit(p) ==
    /\ proc[p].pc = "commit"
    /\ Len(tokens) < MaxTokens
    /\ Commit(FinishOf(proc[p]))
    /\ proc' = [proc EXCEPT ![p] = Done(@, FinishOf(proc[p]).result)]
    /\ UNCHANGED <<clients, now, ticks>>

\* The response is sent; the worker takes the next request.
Return(p) ==
    /\ proc[p].pc = "done"
    /\ proc' = [proc EXCEPT ![p] = Idle]
    /\ StoreUnchanged

NextRace ==
    \/ \E s \in Sessions : CreateClient(s, None)
    \/ \E s \in Sessions, body \in AuthorizeBodies : AuthorizeApprove(s, body)
    \/ \E p \in Procs, form \in RaceCodeForms : StartCodeGrant(p, form)
    \/ \E p \in Procs, form \in RaceRefreshForms : StartRefreshGrant(p, form)
    \/ \E p \in Procs : StepValidate(p)
    \/ \E p \in Procs : StepLookup(p)
    \/ \E p \in Procs : StepCommit(p)
    \/ \E p \in Procs : Return(p)

SpecRace == Init /\ [][NextRace]_vars

\* The client connection is dropped while the request is suspended at an
\* await: the coroutine is cancelled there, before its db.commit() ran, and
\* the session is discarded with whatever it had pending.
Cancel(p) ==
    /\ proc[p].pc \in {"validate", "lookup", "commit"}
    /\ proc' = [proc EXCEPT ![p] = Idle]
    /\ StoreUnchanged

\* The concurrent token requests, together with cancellation and the
\* deletion of clients.
NextWorkers ==
    \/ NextRace
    \/ \E p \in Procs : Cancel(p)
    \/ \E s \in Sessions, id \in 1..MaxClients : DeleteClient(s, id)

SpecWorkers == Init /\ [][NextWorkers]_vars

-----------------------------------------------------------------------------
(* What the claims are stated over *)

\* The plaintext a stored digest was computed from.
Plaintext(digest) == <<digest[2], digest[3]>>

\* Every argument list exchange_code can be called with.
ExchangeArgs ==
    [ code : CodeInputs,
      client_id : ClientIdInputs,
      client_secret : SecretInputs,
      code_verifier : VerifierInputs \cup {""},
      redirect_uri : UriInputs \cup {""} ]

Exchange(a) ==
    ExchangeCode(a.code, a.client_id, a.client_secret, a.code_verifier, a.redirect_uri)

\* Every argument list refresh_access_token can be called with.
RefreshArgs ==
    [ refresh_token : RefreshInputs \cup Creds("access") \cup Creds("code"),
      client_id : ClientIdInputs,
      client_secret : SecretInputs ]

Refresh(a) == RefreshAccessToken(a.refresh_token, a.client_id, a.client_secret)

\* The token rows minted from code row r.
MintedFromCode(r) ==
    {i \in DOMAIN origin : origin[i] = [table |-> "codes", row |-> r]}

\* The token rows minted by refreshing token row t.
MintedFromToken(t) ==
    {i \in DOMAIN origin : origin[i] = [table |-> "tokens", row |-> t]}

\* The code row a token row descends from, through any chain of refreshes.
RECURSIVE RootCode(_)
RootCode(i) ==
    IF origin[i].table = "codes" THEN origin[i].row ELSE RootCode(origin[i].row)

\* C1: no authorization code ever yields tokens twice: at most one token
\* row is minted from a code row, and once one has been, exchange_code
\* returns None (invalid_grant) for that code whatever the other arguments.
C1_SingleUse ==
    \A r \in DOMAIN codes :
        /\ Cardinality(MintedFromCode(r)) <= 1
        /\ MintedFromCode(r) # {} =>
               \A a \in ExchangeArgs :
                   a.code = codes[r].code =>
                       /\ Exchange(a).result = NoResult
                       /\ TokenResponseOf(Exchange(a).result).body.error = "invalid_grant"

\* A code has been exchanged for tokens.
C1_Witness == \E r \in DOMAIN codes : MintedFromCode(r) # {}

\* The claim's conditions for a code exchange, in its words.
ClientValidates(client_id, client_secret) ==
    \E c \in DOMAIN clients :
        /\ clients[c].client_id = client_id
        /\ clients[c].deleted_at = NULL
        /\ client_secret # None => clients[c].client_secret_hash = Hash(client_secret)

ExchangeConditions(a) ==
    /\ ClientValidates(a.client_id, a.client_secret)
    /\ \E r \in DOMAIN codes :
        /\ codes[r].code = a.code
        /\ codes[r].client_id = a.client_id
        /\ codes[r].deleted_at = NULL
        /\ S256(a.code_verifier) = codes[r].code_challenge
        /\ codes[r].redirect_uri = a.redirect_uri

\* Two workers have answered requests of the same grant for the same
\* credential, and both returned tokens.
BothGranted(p, q, grant, field) ==
    /\ p # q
    /\ proc[p].pc = "done" /\ proc[q].pc = "done"
    /\ proc[p].grant = grant /\ proc[q].grant = grant
    /\ proc[p].form[field] = proc[q].form[field]
    /\ proc[p].result.ok /\ proc[q].result.ok

\* C2: of two concurrent exchange_code requests for the same code at most
\* one returns tokens, and no code row has two token rows minted from it.
C2_RaceOneExchange ==
    /\ \A p \in Procs, q \in Procs : ~BothGranted(p, q, "authorization_code", "code")
    /\ \A r \in DOMAIN codes : Cardinality(MintedFromCode(r)) < 2

\* C3: of two concurrent refresh_access_token requests presenting the same
\* refresh token at most one returns tokens, and no token row has two token
\* rows minted from it.
C3_RaceOneRefresh ==
    /\ \A p \in Procs, q \in Procs : ~BothGranted(p, q, "refresh_token", "refresh_token")
    /\ \A t \in DOMAIN tokens : Cardinality(MintedFromToken(t)) < 2

\* C4: exchange_code returns tokens only if the client validates, a live
\* code row with that code and client_id exists, the verifier matches the
\* stored challenge and the redirect_uri equals the stored one; otherwise
\* it returns None (invalid_grant) and adds no token row.
C4_ExchangeOnlyIfAllHold ==
    \A a \in ExchangeArgs :
        /\ Exchange(a).result.ok => ExchangeConditions(a)
        /\ ~ExchangeConditions(a) =>
               /\ Exchange(a).result = NoResult
               /\ TokenResponseOf(Exchange(a).result).body.error = "invalid_grant"
               /\ Exchange(a).tokens = tokens

\* A live code that its own client can exchange, that the other client
\* cannot, and that a wrong verifier or redirect_uri cannot.
C4_Witness ==
    /\ Len(clients) = 2
    /\ \E a \in ExchangeArgs :
        /\ Exchange(a).result.ok
        /\ \E b \in ExchangeArgs :
              /\ b.code = a.code /\ b.client_id # a.client_id
              /\ ClientValidates(b.client_id, b.client_secret)
              /\ ~Exchange(b).result.ok
        /\ ~Exchange([a EXCEPT !.code_verifier = WrongVerifier]).result.ok
        /\ ~Exchange([a EXCEPT !.redirect_uri = EvilUri]).result.ok

\* C5: for a live code presented with a valid client, exchange_code
\* succeeds only when now < expires_at; when now is not before expires_at
\* it returns None and tombstones the code row, whatever the verifier and
\* the redirect_uri.
C5_StrictExpiry ==
    \A a \in ExchangeArgs : \A r \in DOMAIN codes :
        ( /\ ClientValidates(a.client_id, a.client_secret)
          /\ codes[r].code = a.code
          /\ codes[r].client_id = a.client_id
          /\ codes[r].deleted_at = NULL )
        => /\ Exchange(a).result.ok => now < codes[r].expires_at
           /\ ~(now < codes[r].expires_at) =>
                  /\ Exchange(a).result = NoResult
                  /\ Exchange(a).codes[r].deleted_at # NULL

\* The verifiers whose S256 transform is the challenge.
VerifiersOf(code_challenge) == {v \in VerifierInputs : S256(v) = code_challenge}

\* The plaintext access token of token row i, and whether validation of it
\* is asked before its expiry.
AccessTokenOf(i) == Plaintext(tokens[i].token_hash)

\* C6, on the store: every token row carries the user and organization of
\* the code row it descends from; a live code of a live client is exchanged
\* for tokens by the matching verifier and redirect_uri before its expiry;
\* a live token validates, before its expiry, as exactly the pair of the
\* code it descends from; and no bearer validates as any other pair.
C6_Store ==
    /\ \A i \in DOMAIN tokens :
        /\ tokens[i].user_id = codes[RootCode(i)].user_id
        /\ tokens[i].organization_id = codes[RootCode(i)].organization_id
        /\ (tokens[i].deleted_at = NULL /\ now < tokens[i].expires_at) =>
               ValidateAccessToken(AccessTokenOf(i)) =
                   <<codes[RootCode(i)].user_id, codes[RootCode(i)].organization_id>>
    /\ \A r \in DOMAIN codes :
        ( /\ codes[r].deleted_at = NULL
          /\ now < codes[r].expires_at
          /\ ClientValidates(codes[r].client_id, None) ) =>
            \A v \in VerifiersOf(codes[r].code_challenge) :
                Exchange([ code |-> codes[r].code, client_id |-> codes[r].client_id,
                           client_secret |-> None, code_verifier |-> v,
                           redirect_uri |-> codes[r].redirect_uri ]).result.ok
    /\ \A b \in BearerInputs \cup Creds("code") :
        ValidateAccessToken(b) # None =>
            \E i \in DOMAIN tokens :
                /\ tokens[i].token_hash = Hash(b)
                /\ ValidateAccessToken(b) =
                       <<codes[RootCode(i)].user_id, codes[RootCode(i)].organization_id>>

\* C6, on a consent: the code row a consent approved by session s adds
\* carries the user and the organization of s.
C6_Consent ==
    codes' # codes =>
        \A s \in Sessions : \A body \in AuthorizeBodies :
            AuthorizeApprove(s, body) =>
                /\ codes'[Len(codes')].user_id = s[1]
                /\ codes'[Len(codes')].organization_id = s[2]
                /\ codes'[Len(codes')].code = AuthorizeResponse(body).code

\* C6: full flow.  In every state C6_Store holds, and every step that is a
\* consent satisfies C6_Consent.
C6_FullFlow == C6_Store /\ [][C6_Consent /\ C6_Store']_vars

\* A token minted by a refresh of a token minted from a code validates as
\* the consenting session's pair.
C6_Witness ==
    \E i \in DOMAIN tokens :
        /\ origin[i].table = "tokens"
        /\ ValidateAccessToken(AccessTokenOf(i)) # None
        /\ ValidateAccessToken(AccessTokenOf(i)) =
               <<codes[RootCode(i)].user_id, codes[RootCode(i)].organization_id>>

\* The organization of the client a client_id names.
ClientOrgs(client_id) ==
    {clients[c].organization_id : c \in {n \in DOMAIN clients : clients[n].client_id = client_id}}

\* C7: every code row and every token row has the organization_id of the
\* client its client_id names.
C7_InheritClientOrg ==
    /\ \A r \in DOMAIN codes : ClientOrgs(codes[r].client_id) = {codes[r].organization_id}
    /\ \A i \in DOMAIN tokens : ClientOrgs(tokens[i].client_id) = {tokens[i].organization_id}

\* C8: validate_access_token returns a pair only if the token begins with
\* bow_oauth_ and a row with its hash exists with deleted_at unset and
\* expires_at > now.
C8_ValidateOnlyIf ==
    \A b \in BearerInputs \cup Creds("code") :
        ValidateAccessToken(b) # None =>
            /\ StartsWith(b, ACCESS_TOKEN_PREFIX)
            /\ \E i \in DOMAIN tokens :
                /\ tokens[i].token_hash = Hash(b)
                /\ tokens[i].deleted_at = NULL
                /\ tokens[i].expires_at > now

\* C9: for every token row j minted by refreshing row i: the access tokens
\* differ, row i is tombstoned, the old access token does not validate, no
\* refresh call accepts the old refresh token, and the new access token
\* validates while its row is live and unexpired (as it is when returned).
C9_Rotation ==
    \A i \in DOMAIN tokens : \A j \in MintedFromToken(i) :
        /\ AccessTokenOf(j) # AccessTokenOf(i)
        /\ tokens[i].deleted_at # NULL
        /\ ValidateAccessToken(AccessTokenOf(i)) = None
        /\ \A a \in RefreshArgs :
               a.refresh_token = Plaintext(tokens[i].refresh_token_hash[1]) =>
                   Refresh(a).result = NoResult
        /\ (tokens[j].deleted_at = NULL /\ now < tokens[j].expires_at) =>
               ValidateAccessToken(AccessTokenOf(j)) # None

\* A refresh has succeeded, and its new access token validates.
C9_Witness ==
    \E i \in DOMAIN tokens : \E j \in MintedFromToken(i) :
        ValidateAccessToken(AccessTokenOf(j)) # None

\* C10: a token row minted by a refresh has the user_id, organization_id
\* and scope of the row it replaces, so every token row has the scope of
\* the code it descends from; and whatever the arguments of a refresh, the
\* row it adds and the scope it returns are those of the row it replaces.
C10_RefreshKeepsGrant ==
    /\ \A i \in DOMAIN tokens : \A j \in MintedFromToken(i) :
        /\ tokens[j].user_id = tokens[i].user_id
        /\ tokens[j].organization_id = tokens[i].organization_id
        /\ tokens[j].scope = tokens[i].scope
    /\ \A i \in DOMAIN tokens : tokens[i].scope = codes[RootCode(i)].scope
    /\ \A a \in RefreshArgs :
        Refresh(a).result.ok =>
            \E i \in DOMAIN tokens :
                LET new == Refresh(a).tokens[Len(tokens) + 1] IN
                /\ tokens[i].refresh_token_hash = Some(Hash(a.refresh_token))
                /\ new.user_id = tokens[i].user_id
                /\ new.organization_id = tokens[i].organization_id
                /\ new.scope = tokens[i].scope
                /\ Refresh(a).result.scope = tokens[i].scope

\* A chain of two refreshes of a token whose consent asked for a scope
\* other than the default.
C10_Witness ==
    \E j \in DOMAIN tokens :
        /\ origin[j].table = "tokens"
        /\ origin[origin[j].row].table = "tokens"
        /\ tokens[j].scope = "claudeai"

\* C11: for a live token row presented with its refresh token by a valid
\* client, refresh_access_token succeeds only when refresh_expires_at, when
\* present, is after now; when it is not after now the call returns None
\* (invalid_grant) and adds no token row.
C11_StrictRefreshExpiry ==
    \A a \in RefreshArgs : \A t \in DOMAIN tokens :
        ( /\ ClientValidates(a.client_id, a.client_secret)
          /\ tokens[t].refresh_token_hash = Some(Hash(a.refresh_token))
          /\ tokens[t].client_id = a.client_id
          /\ tokens[t].deleted_at = NULL
          /\ tokens[t].refresh_expires_at # NULL )
        => /\ Refresh(a).result.ok => tokens[t].refresh_expires_at[1] > now
           /\ ~(tokens[t].refresh_expires_at[1] > now) =>
                  /\ Refresh(a).result = NoResult
                  /\ TokenResponseOf(Refresh(a).result).body.error = "invalid_grant"
                  /\ Refresh(a).tokens = tokens

\* Redirect URIs that are near an allowlisted one without being it.
RedirectProbes ==
    { "https://claude.ai/api/mcp/auth_callback/",
      "https://claude.ai/api/mcp/auth_callback?next=1",
      "https://claude.ai",
      "HTTPS://CLAUDE.AI/api/mcp/auth_callback" }

\* The consent bodies that are complete, with any client_id and redirect_uri.
RedirectBodies ==
    [ client_id : {Some(c) : c \in ClientIdInputs},
      redirect_uri : {Some(u) : u \in UriInputs \cup RedirectProbes},
      scope : {None},
      code_challenge : {Some(S256(GoldenVerifier))},
      code_challenge_method : {None, Some("S256")} ]

\* redirect_uri is a member of the stored list of a live client client_id.
Allowlisted(client_id, redirect_uri) ==
    \E c \in DOMAIN clients :
        /\ clients[c].client_id = client_id
        /\ clients[c].deleted_at = NULL
        /\ \E k \in DOMAIN clients[c].redirect_uris :
               clients[c].redirect_uris[k] = redirect_uri

\* C12: a consent whose redirect_uri is not a member of the client's stored
\* redirect_uris is answered 400 and leaves the code table as it was; and
\* every code row has a redirect_uri that is in the stored list of the
\* client its client_id names.
C12_RedirectAllowlist ==
    /\ \A s \in Sessions : \A body \in RedirectBodies :
        ~Allowlisted(body.client_id[1], body.redirect_uri[1]) =>
            /\ AuthorizeResponse(body).status = 400
            /\ AuthorizeCodes(s, body) = codes
    /\ \A r \in DOMAIN codes :
        \E c \in DOMAIN clients :
            /\ clients[c].client_id = codes[r].client_id
            /\ \E k \in DOMAIN clients[c].redirect_uris :
                   clients[c].redirect_uris[k] = codes[r].redirect_uri

\* A consent for a live client has been approved, and the same consent with
\* another redirect_uri is refused as "Invalid redirect_uri".
C12_Witness ==
    /\ codes # <<>>
    /\ \E body \in RedirectBodies :
        /\ ValidateClient(body.client_id[1], None) # 0
        /\ body.redirect_uri[1] \in RedirectProbes
        /\ AuthorizeResponse(body).status = 400
        /\ AuthorizeResponse(body).detail = "Invalid redirect_uri"

\* The body carries the four required fields, and the method is "S256".
CarriesRequired(body) ==
    /\ body.client_id # None
    /\ body.redirect_uri # None
    /\ body.code_challenge # None
    /\ body.code_challenge_method = Some("S256")

\* C13: a consent whose body does not carry client_id, redirect_uri,
\* code_challenge and code_challenge_method = "S256" is answered 400 and
\* leaves the code table as it was.
C13_RequiredFields ==
    \A s \in Sessions : \A body \in AuthorizeBodies :
        ~CarriesRequired(body) =>
            /\ AuthorizeResponse(body).status = 400
            /\ AuthorizeCodes(s, body) = codes

\* The session of a request succeeds: the JWT resolved a user and an
\* organization is selected.
SessionSucceeds(req) == req.jwt_user # None /\ req.org # None

\* The API-key header of a request resolves both a user and an organization.
HeaderKeyResolves(req) ==
    /\ req.api_key # None
    /\ GetUserByApiKey(req.api_key[1]) # None
    /\ GetOrganizationByApiKey(req.api_key[1]) # None

\* The schemes a call of the dispatcher can belong to: 1 the session, 2 the
\* API-key header, 3 the Authorization header.
SchemesOf(call, req) ==
    IF call.svc = "get_current_organization" THEN {1}
    ELSE IF call.svc = "validate_access_token" THEN {3}
    ELSE { k \in {2, 3} :
             \/ k = 2 /\ req.api_key = Some(call.arg)
             \/ k = 3 /\ req.authorization # None /\ req.authorization[1][2] = call.arg }

\* C14: the dispatcher consults the schemes in the order session, API-key
\* header, Authorization header; when the session succeeds it returns the
\* session's pair and consults no other scheme, whatever else the request
\* carries; when the session does not succeed and the API-key header
\* resolves a user and an organization it returns that pair without
\* consulting the Authorization header.
C14_Precedence ==
    \A req \in McpRequests :
        LET auth == McpAuth(req) IN
        /\ \A i \in DOMAIN auth.calls : \A j \in DOMAIN auth.calls :
               i < j => \E a \in SchemesOf(auth.calls[i], req) :
                            \E b \in SchemesOf(auth.calls[j], req) : a <= b
        /\ SessionSucceeds(req) =>
               /\ auth.pair = <<req.jwt_user[1], req.org[1]>>
               /\ \A i \in DOMAIN auth.calls :
                      auth.calls[i].svc = "get_current_organization"
        /\ (~SessionSucceeds(req) /\ HeaderKeyResolves(req)) =>
               /\ auth.pair = << GetUserByApiKey(req.api_key[1])[1],
                                 GetOrganizationByApiKey(req.api_key[1])[1] >>
               /\ \A i \in DOMAIN auth.calls :
                      auth.calls[i].svc # "validate_access_token"

\* A request carries a session, a resolving API key and a bearer that
\* validates as another pair, and is authenticated as the session; the same
\* request without the session is authenticated as the API key.
C14_Witness ==
    \E req \in McpRequests :
        /\ SessionSucceeds(req) /\ HeaderKeyResolves(req)
        /\ req.authorization # None
        /\ req.authorization[1][1] = "Bearer "
        /\ ValidateAccessToken(req.authorization[1][2]) \notin
               {None, <<req.jwt_user[1], req.org[1]>>}
        /\ McpAuth(req).pair = <<req.jwt_user[1], req.org[1]>>
        /\ McpAuth([req EXCEPT !.jwt_user = None, !.org = None]).pair =
               << GetUserByApiKey(req.api_key[1])[1],
                  GetOrganizationByApiKey(req.api_key[1])[1] >>

\* Partial successes: the session resolved a user but no organization is
\* selected; the API-key header resolved a user but no organization; the
\* Bearer token is an OAuth access token on record, live but expired.
PartialSession(req) == req.jwt_user # None /\ req.org = None

PartialHeaderKey(req) ==
    /\ req.api_key # None
    /\ GetUserByApiKey(req.api_key[1]) # None
    /\ GetOrganizationByApiKey(req.api_key[1]) = None

PartialOAuth(req) ==
    /\ req.authorization # None
    /\ req.authorization[1][1] = "Bearer "
    /\ StartsWith(req.authorization[1][2], ACCESS_TOKEN_PREFIX)
    /\ \E i \in DOMAIN tokens :
        /\ tokens[i].token_hash = Hash(req.authorization[1][2])
        /\ tokens[i].deleted_at = NULL
        /\ tokens[i].expires_at < now

\* C15: on a partial success the dispatcher stops: the request is not
\* authenticated (401) and no later scheme is consulted.
C15_NoFallback ==
    \A req \in McpRequests :
        LET auth == McpAuth(req) IN
        /\ PartialSession(req) =>
               /\ auth.pair = None
               /\ \A i \in DOMAIN auth.calls : auth.calls[i].svc = "get_current_organization"
        /\ (req.jwt_user = None /\ PartialHeaderKey(req)) =>
               /\ auth.pair = None
               /\ \A i \in DOMAIN auth.calls : SchemesOf(auth.calls[i], req) # {3}
        /\ (req.jwt_user = None /\ req.api_key = None /\ PartialOAuth(req)) =>
               /\ auth.pair = None
               /\ \A i \in DOMAIN auth.calls : auth.calls[i].svc = "validate_access_token"

ApiKeyServiceCalls == {"get_user_by_api_key", "get_organization_by_api_key"}

\* C16: no credential that begins with bow_oauth_ is passed to the API-key
\* service, and no credential that begins with bow_ but not with bow_oauth_
\* is passed to validate_access_token, whatever the request carries and
\* whatever validation answers.
C16_PrefixRouting ==
    \A req \in McpRequests :
        LET auth == McpAuth(req) IN
        \A i \in DOMAIN auth.calls :
            /\ auth.calls[i].svc \in ApiKeyServiceCalls =>
                   ~StartsWith(auth.calls[i].arg, ACCESS_TOKEN_PREFIX)
            /\ auth.calls[i].svc = "validate_access_token" =>
                   ~( /\ StartsWith(auth.calls[i].arg, API_KEY_PREFIX)
                      /\ ~StartsWith(auth.calls[i].arg, ACCESS_TOKEN_PREFIX) )

\* A request presents an access token on record that no longer validates,
\* both as the API-key header and as the Bearer token: it is given to
\* validate_access_token only.  A request presents an API key as the Bearer
\* token: it is given to the API-key service only.
C16_Witness ==
    /\ \E req \in McpRequests :
        /\ req.api_key = Some(<<ACCESS_TOKEN_PREFIX, 1>>)
        /\ req.authorization = Some(<<"Bearer ", <<ACCESS_TOKEN_PREFIX, 1>>>>)
        /\ \E i \in DOMAIN tokens : tokens[i].token_hash = Hash(<<ACCESS_TOKEN_PREFIX, 1>>)
        /\ McpAuth(req).pair = None
        /\ McpAuth(req).calls = <<Call("validate_access_token", <<ACCESS_TOKEN_PREFIX, 1>>)>>
    /\ \E req \in McpRequests :
        /\ req.authorization = Some(<<"Bearer ", <<API_KEY_PREFIX, 2>>>>)
        /\ McpAuth(req).pair = <<"u1", "o2">>
        /\ \A i \in DOMAIN McpAuth(req).calls :
               McpAuth(req).calls[i].svc \in ApiKeyServiceCalls

\* No scheme yields a pair for the request: the session does not succeed,
\* the API-key header is not an API key that resolves both, and the Bearer
\* token neither validates as an access token nor resolves as an API key.
NoSchemeYields(req) ==
    /\ ~SessionSucceeds(req)
    /\ ~( /\ HeaderKeyResolves(req)
          /\ StartsWith(req.api_key[1], API_KEY_PREFIX)
          /\ ~StartsWith(req.api_key[1], ACCESS_TOKEN_PREFIX) )
    /\ \/ req.authorization = None
       \/ req.authorization[1][1] # "Bearer "
       \/ LET token == req.authorization[1][2] IN
          /\ ~(StartsWith(token, ACCESS_TOKEN_PREFIX) /\ ValidateAccessToken(token) # None)
          /\ ~( /\ StartsWith(token, API_KEY_PREFIX)
                /\ ~StartsWith(token, ACCESS_TOKEN_PREFIX)
                /\ GetUserByApiKey(token) # None
                /\ GetOrganizationByApiKey(token) # None )

\* The public base: the configured base URL without its trailing slashes,
\* or the request's origin when none is configured.
PublicBase(env) ==
    IF env.base_url \in {Some("https://bow.example.com"), Some("https://bow.example.com/")}
    THEN "https://bow.example.com"
    ELSE env.origin

\* The response is the 401 of the dispatcher, and no tool was looked up,
\* listed or executed.
IsNotAuthenticated(h, env) ==
    /\ h.response.status = 401
    /\ h.response.detail = "Not authenticated"
    /\ h.response.headers["WWW-Authenticate"] =
           << "Bearer resource_metadata=",
              <<PublicBase(env), "/.well-known/oauth-protected-resource">> >>
    /\ \A i \in DOMAIN h.trace :
           h.trace[i].svc \notin {"list_mcp_tools", "get_mcp_tool", "tool.execute"}

\* The environments and the POST bodies the unauthenticated requests are
\* tried with.
UnauthEnvs ==
    [base_url : BaseUrls, origin : {"http://testserver"}, settings : {"value_true"}]
    \cup [base_url : {None}, origin : {"http://testserver"}, settings : {"no_settings"}]

UnauthBodies ==
    { b \in PostBodies :
        \/ b.kind = "unparseable"
        \/ b.method = "tools/list" /\ b.id # None
        \/ b.method = "tools/call" /\ b.name = Some("create_report") /\ b.exec = "returns" }

EnablementEnvs ==
    [base_url : {None}, origin : {"http://testserver"}, settings : SettingsStates]

EnablementBodies ==
    { b \in PostBodies :
        \/ b.kind \in {"unparseable", "invalid"}
        \/ b.method = "tools/list" /\ b.id # None
        \/ b.method = "tools/call" /\ b.name = Some("create_report") /\ b.exec = "returns" }

\* The calls made once a handler is past its two checks.
HandlerCalls == {"raw_request.json", "list_mcp_tools", "get_mcp_tool", "tool.execute"}

\* The handling h of a request whose dispatcher result is auth respects the
\* order authentication, enablement check, body: unauthenticated is 401 with
\* no enablement check, authenticated and not enabled is 403 with the check
\* as the last call, and a handler call is always preceded by the check.
ChecksInOrder(h, auth, env) ==
    /\ auth.pair = None =>
           /\ h.response.status = 401
           /\ \A i \in DOMAIN h.trace :
                  h.trace[i].svc \notin HandlerCalls \cup {"_check_mcp_enabled"}
    /\ auth.pair # None /\ env.settings \in {"no_settings", "no_config", "value_false"} =>
           /\ h.response.status = 403
           /\ h.trace = auth.calls \o <<Call("_check_mcp_enabled", auth.pair[2])>>
           /\ \A i \in DOMAIN h.trace : h.trace[i].svc \notin HandlerCalls
    /\ \A i \in DOMAIN h.trace :
           h.trace[i].svc \in HandlerCalls =>
               /\ i > Len(auth.calls) + 1
               /\ h.trace[Len(auth.calls) + 1].svc = "_check_mcp_enabled"

InvalidGrant == [status |-> 400, body |-> [error |-> "invalid_grant"]]

\* What a rotation of live row c, answered with the secret new, leaves: the
\* new secret validates the client, no secret drawn before it does, and an
\* exchange or a refresh that supplies one of those is answered invalid_grant.
RotationReplaces(c, cid, new) ==
    /\ ValidateClient(cid, new)' = c
    /\ \A old \in Creds("secret") : ValidateClient(cid, old)' = 0
    /\ \A a \in ExchangeArgs :
           (a.client_id = cid /\ a.client_secret # None) =>
               TokenResponseOf(Exchange(a).result)' = InvalidGrant
    /\ \A a \in RefreshArgs :
           (a.client_id = cid /\ a.client_secret # None) =>
               TokenResponseOf(Refresh(a).result)' = InvalidGrant

\* A secret that was drawn and does not validate a client id does not
\* validate it after the step either.
StaysInvalid ==
    \A cid \in ClientIdInputs : \A old \in Creds("secret") :
        ValidateClient(cid, old) = 0 => ValidateClient(cid, old)' = 0

\* C19: a rotation of a live client makes the returned secret validate the
\* client and every secret drawn before it fail, exchange_code and
\* refresh_access_token with such a secret are answered invalid_grant, and
\* no later step makes a failing secret validate again, so this holds for
\* every earlier secret after any number of rotations.
C19_RotateReplacesSecret ==
    [][ (drawn'["secret"] # drawn["secret"] \/ clients' # clients) =>
            /\ StaysInvalid
            /\ \A s \in Sessions : \A id \in 1..MaxClients :
                   \A c \in {OwnedClientLookup(id, s[2])} :
                       (c # 0 /\ RotateClientSecret(s, id)) =>
                           \A cid \in {clients[c].client_id} :
                               \A new \in {RotateClientSecretResponse(s, id).client_secret} :
                                   RotationReplaces(c, cid, new) ]_vars

\* The one client was rotated twice and holds a live refresh token: a
\* refresh with the third secret succeeds, with the first or the second it
\* fails.
C19_Witness ==
    /\ Len(clients) = 1
    /\ drawn["secret"] = 3
    /\ \E a \in RefreshArgs :
           /\ a.client_id = clients[1].client_id
           /\ a.client_secret = <<CLIENT_SECRET_PREFIX, 3>>
           /\ Refresh(a).result.ok
           /\ ~Refresh([a EXCEPT !.client_secret = <<CLIENT_SECRET_PREFIX, 1>>]).result.ok
           /\ ~Refresh([a EXCEPT !.client_secret = <<CLIENT_SECRET_PREFIX, 2>>]).result.ok

\* The arguments of an exchange as the holder of the rotated client's secret
\* sends them after the rotation: the new secret in place of a supplied one.
WithSecret(a, cid, new) ==
    IF a.client_id = cid /\ a.client_secret # None
    THEN [a EXCEPT !.client_secret = new]
    ELSE a

\* What a rotation of live row c leaves alone: every column of every client
\* row but c's client_secret_hash, the code rows and the token rows; what
\* validate_access_token answers for every bearer; and every exchange that
\* was granted is granted still, to the same user, organization and scope.
RotationFrame(c, cid, new) ==
    /\ clients' = [clients EXCEPT ![c].client_secret_hash = clients'[c].client_secret_hash]
    /\ codes' = codes
    /\ tokens' = tokens
    /\ origin' = origin
    /\ \A t \in BearerInputs : ValidateAccessToken(t)' = ValidateAccessToken(t)
    /\ \A a \in ExchangeArgs :
           Exchange(a).result.ok =>
               \A b \in {WithSecret(a, cid, new)} :
                   /\ Exchange(b).result.ok'
                   /\ Exchange(b).tokens[Len(tokens) + 1].user_id'
                          = Exchange(a).tokens[Len(tokens) + 1].user_id
                   /\ Exchange(b).tokens[Len(tokens) + 1].organization_id'
                          = Exchange(a).tokens[Len(tokens) + 1].organization_id
                   /\ Exchange(b).result.scope' = Exchange(a).result.scope

\* C20: a rotation changes only the rotated client's client_secret_hash:
\* the authorization-code rows and the token rows are unchanged, every
\* access token that validated before the step validates after it, and
\* every code that was exchangeable is exchangeable still.
C20_RotateFrame ==
    [][ clients' # clients =>
            \A s \in Sessions : \A id \in 1..MaxClients :
                \A c \in {OwnedClientLookup(id, s[2])} :
                    (c # 0 /\ RotateClientSecret(s, id)) =>
                        \A cid \in {clients[c].client_id} :
                            \A new \in {RotateClientSecretResponse(s, id).client_secret} :
                                RotationFrame(c, cid, new) ]_vars

\* Two clients, the first rotated as often as the bound allows, with an
\* access token of the first that validates.
C20_Witness ==
    /\ Len(clients) = 2
    /\ drawn["secret"] = 2 + MaxRotations
    /\ clients[1].client_secret_hash = Hash(<<CLIENT_SECRET_PREFIX, drawn["secret"]>>)
    /\ clients[2].deleted_at = NULL
    /\ \E i \in DOMAIN tokens :
           /\ tokens[i].client_id = clients[1].client_id
           /\ ValidateAccessToken(AccessTokenOf(i)) # None

\* Nothing accepts the client_id of tombstoned row c: it is on no list, it
\* has no public info, it validates with no secret and without one, and no
\* exchange, refresh or consent approval that names it succeeds.
DeletedClientRefused(c) ==
    LET cid == clients[c].client_id IN
    /\ \A org \in Orgs : \A i \in DOMAIN ListClients(org) :
           ListClients(org)[i].id # clients[c].id /\ ListClients(org)[i].client_id # cid
    /\ GetClientInfo(cid) = None
    /\ GetClientInfoResponse(cid).status = 404
    /\ \A secret \in SecretInputs : ValidateClient(cid, secret) = 0
    /\ \A a \in ExchangeArgs : a.client_id = cid => ~Exchange(a).result.ok
    /\ \A a \in RefreshArgs : a.client_id = cid => ~Refresh(a).result.ok
    /\ \A body \in AuthorizeBodies :
           body.client_id = Some(cid) => AuthorizeCheck(body) # "ok"

\* C21: once delete has tombstoned a client, in every later state the
\* tombstone is still there, list(org) does not include the client,
\* get_public_info and validate return nil for its client_id with or
\* without a secret, and every exchange_code, refresh_access_token and
\* consent approval naming it fails.
C21_DeletedClientStaysRefused ==
    /\ [](\A c \in DOMAIN clients : clients[c].deleted_at # NULL => DeletedClientRefused(c))
    /\ [][\A c \in DOMAIN clients :
              clients[c].deleted_at # NULL =>
                  /\ c \in DOMAIN clients'
                  /\ clients'[c].deleted_at # NULL
                  /\ clients'[c].client_id = clients[c].client_id]_vars

\* A tombstoned client with a token row that is live and whose refresh
\* token has not expired: only the deletion stands in the way of a refresh.
C21_Witness ==
    \E c \in DOMAIN clients : \E t \in DOMAIN tokens :
        /\ clients[c].deleted_at # NULL
        /\ tokens[t].client_id = clients[c].client_id
        /\ tokens[t].deleted_at = NULL
        /\ ~RefreshExpired(tokens[t])

\* C22: delete is idempotent.  The delete of a live client answers 200 and
\* sets the row's deleted_at to the time of the call, changing nothing
\* else; a delete of an id whose row is tombstoned answers 404 (the service
\* returns False) and leaves the clients table, the recorded deleted_at
\* included, as it is, whoever calls it and whenever.
C22_DeleteIdempotent ==
    /\ [](\A c \in DOMAIN clients : \A s \in Sessions :
              clients[c].deleted_at # NULL =>
                  /\ OwnedClientLookup(clients[c].id, s[2]) = 0
                  /\ DeleteClientStatus(s, clients[c].id) = 404
                  /\ DeleteClientRows(OwnedClientLookup(clients[c].id, s[2])) = clients)
    /\ [][\A s \in Sessions : \A id \in 1..MaxClients :
              \A c \in {OwnedClientLookup(id, s[2])} :
                  (c # 0 /\ DeleteClient(s, id)) =>
                      /\ DeleteClientStatus(s, id) = 200
                      /\ clients' = [clients EXCEPT ![c].deleted_at = Some(now)]
                      /\ UNCHANGED <<codes, tokens, origin, drawn, now>>
                      /\ \A s2 \in Sessions : DeleteClientStatus(s2, id)' = 404]_vars

\* A client was deleted and time has passed since: a second delete that
\* found the row would overwrite the recorded deleted_at.
C22_Witness ==
    \E c \in DOMAIN clients :
        /\ clients[c].deleted_at # NULL
        /\ clients[c].deleted_at[1] < now

\* The live rows that carry client_id and, when a secret is given, whose
\* stored hash is the hash of that secret.
MatchingClients(client_id, client_secret) ==
    { c \in DOMAIN clients :
        /\ clients[c].deleted_at = NULL
        /\ clients[c].client_id = client_id
        /\ client_secret # None => clients[c].client_secret_hash = Hash(client_secret) }

\* C23: validate(client_id, client_secret?) returns the client exactly when
\* a live client with that client_id exists and, when a secret is given, its
\* hash is the stored client_secret_hash; the row returned is that client;
\* without a secret it succeeds for every live client.
C23_ValidateIff ==
    /\ \A client_id \in ClientIdInputs : \A client_secret \in SecretInputs :
           /\ ValidateClient(client_id, client_secret) # 0
                  <=> MatchingClients(client_id, client_secret) # {}
           /\ ValidateClient(client_id, client_secret) # 0 =>
                  ValidateClient(client_id, client_secret)
                      \in MatchingClients(client_id, client_secret)
    /\ \A c \in DOMAIN clients :
           clients[c].deleted_at = NULL =>
               /\ clients[c].client_secret_hash # NULL
               /\ ValidateClient(clients[c].client_id, None) = c

\* Two live clients: the first validates with its own secret and without a
\* secret, and not with the secret of the second.
C23_Witness ==
    /\ Len(clients) = 2
    /\ clients[1].deleted_at = NULL /\ clients[2].deleted_at = NULL
    /\ ValidateClient(clients[1].client_id, Plaintext(clients[1].client_secret_hash)) = 1
    /\ ValidateClient(clients[1].client_id, None) = 1
    /\ ValidateClient(clients[1].client_id, Plaintext(clients[2].client_secret_hash)) = 0

\* Session s calls with the id of a client that another organization owns.
ForeignClient(s, id) ==
    \E c \in DOMAIN clients : clients[c].id = id /\ clients[c].organization_id # s[2]

\* The ids of the live clients of organization org.
LiveClientIdsOf(org) ==
    { clients[c].id : c \in { n \in DOMAIN clients :
                                clients[n].organization_id = org /\ clients[n].deleted_at = NULL } }

\* C24: client operations are scoped to the caller's organization.  Delete
\* and rotate called by a session of another organization than the
\* client's answer 404 and leave the client and the rest of the store as
\* they are, and list(org) returns exactly the live clients whose
\* organization_id is org, each once.
C24_OrgScoped ==
    /\ [](/\ \A s \in Sessions : \A id \in 1..MaxClients :
               ForeignClient(s, id) =>
                   /\ DeleteClientStatus(s, id) = 404
                   /\ DeleteClientRows(OwnedClientLookup(id, s[2])) = clients
                   /\ RotateClientSecretResponse(s, id).status = 404
                   /\ RotateClientSecretRows(OwnedClientLookup(id, s[2])) = clients
          /\ \A org \in Orgs :
               /\ {ListClients(org)[i].id : i \in DOMAIN ListClients(org)} = LiveClientIdsOf(org)
               /\ Len(ListClients(org)) = Cardinality(LiveClientIdsOf(org))
               /\ ListClientsResponse(CHOOSE s \in Sessions : s[2] = org).body = ListClients(org))
    /\ [][(clients' # clients \/ drawn' # drawn) =>
              \A s \in Sessions : \A id \in 1..MaxClients :
                  (ForeignClient(s, id) /\ (DeleteClient(s, id) \/ RotateClientSecret(s, id)))
                      => UNCHANGED vars]_vars

\* Two live clients of two organizations, the first rotated: each
\* organization lists one client, and the session of the second
\* organization is answered 404 for the first client.
C24_Witness ==
    /\ Len(clients) = 2
    /\ clients[1].organization_id = "o1" /\ clients[2].organization_id = "o2"
    /\ clients[1].deleted_at = NULL /\ clients[2].deleted_at = NULL
    /\ clients[1].client_secret_hash # Hash(<<CLIENT_SECRET_PREFIX, 1>>)
    /\ Len(ListClients("o1")) = 1 /\ Len(ListClients("o2")) = 1
    /\ DeleteClientStatus(<<"u2", "o2">>, clients[1].id) = 404
    /\ RotateClientSecretResponse(<<"u2", "o2">>, clients[1].id).status = 404

\* No answer that can be given in this state carries the secret of row c or
\* its hash: a list entry has the keys id, client_id, name and redirect_uris
\* with the row's values, the public info has the keys client_id and name,
\* and the secret a create or a rotate would return now is another one.
SecretNotShown(c) ==
    LET secret == Plaintext(clients[c].client_secret_hash) IN
    /\ \A org \in Orgs : \A i \in DOMAIN ListClients(org) :
           LET entry == ListClients(org)[i] IN
           /\ DOMAIN entry = {"id", "client_id", "name", "redirect_uris"}
           /\ \E n \in DOMAIN clients :
                  /\ entry.id = clients[n].id
                  /\ entry.client_id = clients[n].client_id
                  /\ entry.name = clients[n].name
                  /\ entry.redirect_uris = clients[n].redirect_uris
           /\ entry.client_id # secret
    /\ \A client_id \in ClientIdInputs :
           GetClientInfo(client_id) # None =>
               LET info == GetClientInfoResponse(client_id).body IN
               /\ DOMAIN info = {"client_id", "name"}
               /\ info.client_id = client_id
               /\ info.client_id # secret
               /\ \E n \in DOMAIN clients : info.name = clients[n].name
    /\ CreateClientResponse(None).client_secret # secret
    /\ \A s \in Sessions : \A id \in 1..MaxClients :
           RotateClientSecretResponse(s, id).status = 200 =>
               RotateClientSecretResponse(s, id).client_secret # secret

\* C25: the secret a create or a rotate stores the hash of is the one its
\* response returns, a value never returned before; and in every state no
\* list or public-info answer carries a client secret or its hash (the
\* public info has client_id and name only), nor does a later create or
\* rotate return a secret that is already stored.
C25_SecretShownOnce ==
    /\ [](\A c \in DOMAIN clients : SecretNotShown(c))
    /\ [][(clients' # clients) =>
              /\ \A s \in Sessions :
                     CreateClient(s, None) =>
                         /\ clients'[Len(clients')].client_secret_hash
                                = Hash(CreateClientResponse(None).client_secret)
                         /\ CreateClientResponse(None).client_secret \notin Creds("secret")
              /\ \A s \in Sessions : \A id \in 1..MaxClients :
                     \A c \in {OwnedClientLookup(id, s[2])} :
                         (c # 0 /\ RotateClientSecret(s, id)) =>
                             /\ clients'[c].client_secret_hash
                                    = Hash(RotateClientSecretResponse(s, id).client_secret)
                             /\ RotateClientSecretResponse(s, id).client_secret
                                    \notin Creds("secret")]_vars

\* A live client whose secret was rotated is listed and has public info.
C25_Witness ==
    /\ Len(clients) = 1
    /\ drawn["secret"] = 2
    /\ Len(ListClients(clients[1].organization_id)) = 1
    /\ GetClientInfoResponse(clients[1].client_id).status = 200

\* A successful outcome of exchange_code or refresh_access_token, called at
\* the instant now: the response has expires_in 3600, token_type "Bearer",
\* a bow_oauth_ access token and a bow_rt_ refresh token, and the row it
\* persists holds their hashes, expires expires_in seconds after now and its
\* refresh token 30 days after now.
WellFormedIssue(out) ==
    LET row == out.tokens[Len(out.tokens)] IN
    /\ Len(out.tokens) = Len(tokens) + 1
    /\ out.result.expires_in = 3600
    /\ out.result.token_type = "Bearer"
    /\ StartsWith(out.result.access_token, "bow_oauth_")
    /\ StartsWith(out.result.refresh_token, "bow_rt_")
    /\ row.token_hash = Hash(out.result.access_token)
    /\ row.refresh_token_hash = Some(Hash(out.result.refresh_token))
    /\ row.expires_at = now + out.result.expires_in
    /\ row.refresh_expires_at = Some(now + 30 * 24 * 3600)
    /\ row.deleted_at = NULL

\* C26: every token response of exchange_code and refresh_access_token has
\* expires_in 3600, token_type "Bearer", an access_token beginning with
\* bow_oauth_ and a refresh_token beginning with bow_rt_, and the record
\* persisted with it has expires_at = issue time + expires_in seconds and
\* refresh_expires_at = issue time + 30 days; the token endpoint returns
\* that response with status 200.
C26_TokenResponseShape ==
    /\ \A a \in ExchangeArgs :
           Exchange(a).result.ok =>
               /\ WellFormedIssue(Exchange(a))
               /\ TokenResponseOf(Exchange(a).result)
                      = [status |-> 200, body |-> Exchange(a).result]
    /\ \A a \in RefreshArgs :
           Refresh(a).result.ok =>
               /\ WellFormedIssue(Refresh(a))
               /\ TokenResponseOf(Refresh(a).result)
                      = [status |-> 200, body |-> Refresh(a).result]
    /\ \A i \in DOMAIN tokens :
           tokens[i].refresh_expires_at = Some(tokens[i].expires_at - 3600 + 30 * 24 * 3600)

\* Time has passed since the first token was issued, a token was minted by
\* a refresh at the present instant, and it can be refreshed again.
C26_Witness ==
    /\ now > 0
    /\ \E j \in DOMAIN tokens :
           /\ origin[j].table = "tokens"
           /\ tokens[j].expires_at = now + 3600
           /\ \E a \in RefreshArgs :
                  /\ a.refresh_token = Plaintext(tokens[j].refresh_token_hash[1])
                  /\ Refresh(a).result.ok

\* The forms that reach the service: no required field missing or empty.
CompleteCodeForms ==
    { f \in CodeGrantForms :
        ~Falsy(f.code) /\ ~Falsy(f.code_verifier) /\ ~Falsy(f.redirect_uri) }

CompleteRefreshForms == { f \in RefreshGrantForms : ~Falsy(f.refresh_token) }

\* C27: within a grant type the token endpoint answers every failure the
\* same way: an authorization_code request that is not granted -- unknown
\* or deleted client, wrong secret, unknown, consumed or expired code, wrong
\* verifier, wrong redirect_uri -- gets status 400 with the one body
\* invalid_grant, and so does every refresh_token request that is not
\* granted; the answer does not tell which check failed.
C27_GenericFailure ==
    /\ \A f \in CompleteCodeForms :
           \/ CodeGrantResponse(f).status = 200 /\ CodeGrantOutcome(f).result.ok
           \/ CodeGrantResponse(f) = InvalidGrant
    /\ \A f \in CompleteRefreshForms :
           \/ RefreshGrantResponse(f).status = 200 /\ RefreshGrantOutcome(f).result.ok
           \/ RefreshGrantResponse(f) = InvalidGrant

\* One client is live and one is deleted, and a request is granted; the
\* same request with an unknown client, the deleted client, a wrong secret,
\* an unknown code, the wrong verifier or another redirect_uri is refused.
C27_Witness ==
    \E f \in CompleteCodeForms : \E d \in DOMAIN clients :
        /\ clients[d].deleted_at # NULL
        /\ f.client_secret # None
        /\ CodeGrantResponse(f).status = 200
        /\ CodeGrantResponse([f EXCEPT !.client_id = <<CLIENT_ID_PREFIX, 0>>]).status = 400
        /\ CodeGrantResponse([f EXCEPT !.client_id = clients[d].client_id]).status = 400
        /\ CodeGrantResponse([f EXCEPT !.client_secret = <<CLIENT_SECRET_PREFIX, 0>>]).status = 400
        /\ CodeGrantResponse([f EXCEPT !.code = Some(<<CODE_PREFIX, 0>>)]).status = 400
        /\ CodeGrantResponse([f EXCEPT !.code_verifier = Some(WrongVerifier)]).status = 400
        /\ CodeGrantResponse([f EXCEPT !.redirect_uri = Some(EvilUri)]).status = 400

\* The plaintexts generated so far, by kind, and the secret ones of them.
IssuedOf(kind) == {<<PrefixOfKind(kind), n>> : n \in 1..drawn[kind]}

SecretPlaintexts == IssuedOf("secret") \cup IssuedOf("access") \cup IssuedOf("refresh")

\* No credential-valued column of the three tables holds a plaintext, and
\* each hash column holds the hash of a generated plaintext of its kind.
StoresHashesOnly ==
    /\ \A c \in DOMAIN clients :
           /\ clients[c].client_secret_hash \in {Hash(x) : x \in IssuedOf("secret")}
           /\ clients[c].client_secret_hash \notin SecretPlaintexts
           /\ clients[c].client_id \notin SecretPlaintexts
    /\ \A r \in DOMAIN codes :
           /\ codes[r].code \notin SecretPlaintexts
           /\ codes[r].client_id \notin SecretPlaintexts
    /\ \A t \in DOMAIN tokens :
           /\ tokens[t].token_hash \in {Hash(x) : x \in IssuedOf("access")}
           /\ tokens[t].token_hash \notin SecretPlaintexts
           /\ tokens[t].refresh_token_hash \in {Some(Hash(x)) : x \in IssuedOf("refresh")}
           /\ tokens[t].refresh_token_hash \notin {Some(x) : x \in SecretPlaintexts}
           /\ tokens[t].client_id \notin SecretPlaintexts
    /\ \A x \in SecretPlaintexts : Hash(x) # x

\* No answer of this state returns a plaintext whose hash is stored: the
\* tokens of a grant and the secret of a create or rotate are new ones.
IssuedOnlyOnce ==
    /\ \A a \in ExchangeArgs :
           Exchange(a).result.ok =>
               /\ Exchange(a).result.access_token \notin SecretPlaintexts
               /\ Exchange(a).result.refresh_token \notin SecretPlaintexts
    /\ \A a \in RefreshArgs :
           Refresh(a).result.ok =>
               /\ Refresh(a).result.access_token \notin SecretPlaintexts
               /\ Refresh(a).result.refresh_token \notin SecretPlaintexts
    /\ CreateClientResponse(None).client_secret \notin SecretPlaintexts
    /\ \A s \in Sessions : \A id \in 1..MaxClients :
           RotateClientSecretResponse(s, id).status = 200 =>
               RotateClientSecretResponse(s, id).client_secret \notin SecretPlaintexts

\* C28: in every reachable state the store holds no plaintext client
\* secret, access token or refresh token: client_secret_hash, token_hash
\* and refresh_token_hash are the hash of a generated plaintext, and a
\* plaintext whose hash is stored is returned by no later response.
C28_HashesOnly == StoresHashesOnly /\ IssuedOnlyOnce

\* A rotated client and a token row minted by a refresh: every hash column
\* has been written by each operation that writes it.
C28_Witness ==
    /\ \E c \in DOMAIN clients : clients[c].client_secret_hash # Hash(<<CLIENT_SECRET_PREFIX, c>>)
    /\ \E t \in DOMAIN tokens : origin[t].table = "tokens"

\* C29: validate_access_token resolves a token only when the user and the
\* organization of its row both exist and are live: whatever the state of
\* the two external tables, a pair is returned only for a live user and a
\* live organization.
C29_ResolvesOnlyLive ==
    \A directory \in Directories : \A token \in BearerInputs :
        ValidateAccessTokenAt(directory, token) # None =>
            /\ directory[ValidateAccessTokenAt(directory, token)[1]] = "live"
            /\ directory[ValidateAccessTokenAt(directory, token)[2]] = "live"

\* The part of C29 that the code keeps: a token whose user row or
\* organization row is absent resolves nobody.
C29_MissingRefused ==
    \A directory \in Directories : \A t \in DOMAIN tokens :
        (directory[tokens[t].user_id] = "missing" \/ directory[tokens[t].organization_id] = "missing")
            => ValidateAccessTokenAt(directory, AccessTokenOf(t)) = None

\* The tools/call requests that name a registered tool, among authenticated
\* requests of an MCP-enabled organization
ResolvableCalls == {b \in PostBodies : b.kind = "rpc" /\ b.method = "tools/call"
                                        /\ b.name # None /\ b.name[1] \in ToolNames}

\* The environment of an organization whose mcp_enabled value is true
EnabledEnv == [base_url |-> None, origin |-> "http://testserver", settings |-> "value_true"]

\* HTTP 200, a result member and no error member, the request's id echoed,
\* one text content and the given isError
ToolEnvelope(response, body, isError) ==
    /\ response.status = 200
    /\ DOMAIN response.body = {"jsonrpc", "id", "result"}
    /\ response.body.id = body.id
    /\ DOMAIN response.body.result = {"content", "isError"}
    /\ Len(response.body.result.content) = 1
    /\ response.body.result.content[1].type = "text"
    /\ response.body.result.isError = isError

\* C30: for tools/call on a resolvable tool, a failure raised by the tool
\* produces a successful JSON-RPC response (HTTP 200, a result member and no
\* error member, the request's id echoed) whose result has isError true and
\* the failure message as text; a tool that returns normally produces the
\* same shape with isError false.
C30_ToolOutcomeEnvelope ==
    \A auth \in {McpAuth(req) : req \in McpRequests} : \A body \in ResolvableCalls :
        auth.pair # None =>
            \A response \in {McpPostHandled(auth, EnabledEnv, body).response} :
                IF ToolExecute(body.exec).returned
                THEN ToolEnvelope(response, body, FALSE)
                ELSE /\ ToolEnvelope(response, body, TRUE)
                     /\ response.body.result.content[1].text = Str(ToolExecute(body.exec).value)

\* The part of C30 that the code keeps: a tool that raises is answered with
\* the envelope, isError true and its message; a tool whose result json can
\* encode is answered with the envelope, isError false and the encoded text.
C30_RaisedOrEncodable ==
    \A auth \in {McpAuth(req) : req \in McpRequests} : \A body \in ResolvableCalls :
        (auth.pair # None /\ body.exec # "returns_object") =>
            \A response \in {McpPostHandled(auth, EnabledEnv, body).response} :
                IF ToolExecute(body.exec).returned
                THEN /\ ToolEnvelope(response, body, FALSE)
                     /\ response.body.result.content[1].text = JsonDumps(ToolExecute(body.exec).value).value
                ELSE /\ ToolEnvelope(response, body, TRUE)
                     /\ response.body.result.content[1].text = Str(ToolExecute(body.exec).value)

\* The header MCP-Protocol-Version: 2025-06-18 is on the response
CarriesVersion(response) ==
    /\ "MCP-Protocol-Version" \in DOMAIN response.headers
    /\ response.headers["MCP-Protocol-Version"] = "2025-06-18"

\* C31: all responses of the MCP endpoints carry the header
\* MCP-Protocol-Version: 2025-06-18: success results, JSON-RPC error
\* responses, the 401 and 403 rejections, and the GET /api/mcp/tools listing.
C31_AllCarryVersion ==
    \A auth \in {McpAuth(req) : req \in McpRequests} : \A env \in EnablementEnvs :
        /\ CarriesVersion(McpGetHandled(auth, env).response)
        /\ CarriesVersion(GetToolsHandled(auth, env).response)
        /\ \A body \in PostBodies : CarriesVersion(McpPostHandled(auth, env, body).response)

\* The part of C31 that the code keeps: what GET /api/mcp and POST /api/mcp
\* answer to an authenticated request of an MCP-enabled organization, a
\* result or a JSON-RPC error, carries the header.
C31_JsonRpcCarryVersion ==
    \A auth \in {McpAuth(req) : req \in McpRequests} : \A env \in EnablementEnvs :
        ~Rejected(auth, env) =>
            /\ CarriesVersion(McpGetHandled(auth, env).response)
            /\ \A body \in PostBodies : CarriesVersion(McpPostHandled(auth, env, body).response)

\* Code row r was consumed by an exchange that succeeded (an expired code is
\* tombstoned after its expires_at)
Consumed(r) == codes[r].deleted_at # NULL /\ codes[r].deleted_at[1] <= codes[r].expires_at

\* The committed store holds the tombstone of a consumed code together with
\* the token row minted from it, and never one without the other.
TombstoneWithToken ==
    /\ \A r \in DOMAIN codes : Consumed(r) => MintedFromCode(r) # {}
    /\ \A i \in DOMAIN origin :
           origin[i].table = "codes" => codes[origin[i].row].deleted_at # NULL

\* A step in which a suspended request is dropped before its commit
Aborted ==
    \E p \in Procs : proc[p].pc \in {"validate", "lookup", "commit"} /\ proc'[p] = Idle

\* C32: a successful exchange_code writes the code's tombstone and the new
\* token record in one commit: no state observable by another request has
\* the code consumed by a successful exchange without its token record
\* persisted, or a token record persisted from a code that is still live;
\* an exchange aborted before its commit leaves both unchanged.
C32_ExchangeAtomic ==
    /\ []TombstoneWithToken
    /\ [][Aborted => UNCHANGED <<clients, codes, tokens, origin, drawn>>]_vars

\* A code has been exchanged for tokens while another request, suspended
\* before its commit, holds the same code row.
C32_Witness ==
    \E r \in DOMAIN codes : \E p \in Procs :
        /\ Consumed(r) /\ MintedFromCode(r) # {}
        /\ proc[p].pc = "commit" /\ proc[p].grant = "authorization_code"
        /\ proc[p].row = r

\* The exchange presents, with a client that validates, a live code of that
\* client at or after the code's expires_at
PastExpiry(a) ==
    /\ ClientValidates(a.client_id, a.client_secret)
    /\ \E r \in DOMAIN codes :
        /\ codes[r].code = a.code /\ codes[r].client_id = a.client_id
        /\ codes[r].deleted_at = NULL
        /\ ~(now < codes[r].expires_at)

\* The exchange of code row r with the parameters it was issued for
CorrectExchanges(r) ==
    { a \in ExchangeArgs :
        /\ a.code = codes[r].code /\ a.client_id = codes[r].client_id
        /\ ClientValidates(a.client_id, a.client_secret)
        /\ S256(a.code_verifier) = codes[r].code_challenge
        /\ a.code_verifier # "" /\ codes[r].code_challenge # ""
        /\ a.redirect_uri = codes[r].redirect_uri }

\* C33: an exchange_code call that fails for any reason other than expiry
\* (invalid client, wrong secret, code bound to another client, PKCE
\* mismatch, redirect_uri mismatch) leaves the store unchanged: the code
\* stays live, and a later exchange with the correct parameters before
\* expires_at still succeeds, after any number of such failed attempts.
C33_FailedExchangeFrame ==
    /\ \A a \in ExchangeArgs :
           (Exchange(a).result = NoResult /\ ~PastExpiry(a)) =>
               /\ Exchange(a).codes = codes
               /\ Exchange(a).tokens = tokens
               /\ Exchange(a).origin = origin
               /\ Exchange(a).drawn = drawn
    /\ \A r \in DOMAIN codes :
           (codes[r].deleted_at = NULL /\ now < codes[r].expires_at) =>
               \A a \in CorrectExchanges(r) : Exchange(a).result.ok

\* A live code before its expiry, with two clients registered: the exchange
\* fails with a secret that is not the client's, with the other client's
\* id, with a wrong verifier and with a wrong redirect_uri, and the
\* exchange with the parameters it was issued for succeeds.
C33_Witness ==
    /\ Len(clients) = 2
    /\ \E r \in DOMAIN codes :
        /\ codes[r].deleted_at = NULL /\ now < codes[r].expires_at
        /\ \E a \in CorrectExchanges(r) :
            /\ Exchange(a).result.ok
            /\ \E x \in SecretInputs : ~Exchange([a EXCEPT !.client_secret = x]).result.ok
            /\ \E c \in ClientIdInputs :
                  /\ ClientValidates(c, None)
                  /\ ~Exchange([a EXCEPT !.client_id = c, !.client_secret = None]).result.ok
            /\ ~Exchange([a EXCEPT !.code_verifier = WrongVerifier]).result.ok
            /\ ~Exchange([a EXCEPT !.redirect_uri = EvilUri]).result.ok

\* The live token rows whose refresh token is the one presented and whose
\* client is the one named
RefreshRows(a) ==
    { t \in DOMAIN tokens :
        /\ tokens[t].refresh_token_hash = Some(Hash(a.refresh_token))
        /\ tokens[t].client_id = a.client_id
        /\ tokens[t].deleted_at = NULL }

\* C34: refresh_access_token returns tokens only if the client validates
\* and a live token record exists whose refresh_token_hash is the hash of
\* the presented token and whose client_id equals the request's client_id;
\* a refresh token issued to client A presented with client B's client_id
\* fails, and every failed refresh (including one rejected for refresh
\* expiry) leaves the store unchanged, with the old access token still
\* valid.
C34_RefreshOnlyIfBound ==
    \A a \in RefreshArgs :
        /\ Refresh(a).result.ok =>
               ClientValidates(a.client_id, a.client_secret) /\ RefreshRows(a) # {}
        /\ ~Refresh(a).result.ok =>
               /\ Refresh(a).result = NoResult
               /\ Refresh(a).tokens = tokens
               /\ Refresh(a).codes = codes
               /\ Refresh(a).origin = origin
               /\ Refresh(a).drawn = drawn
               /\ \A t \in DOMAIN tokens :
                      (tokens[t].refresh_token_hash = Some(Hash(a.refresh_token))
                          /\ ValidateAccessToken(AccessTokenOf(t)) # None)
                      => Refresh(a).tokens[t].deleted_at = NULL

\* Two live clients and a live token row of one of them whose access token
\* validates: its refresh token is refused with the other client's id and
\* accepted with its own.
C34_Witness ==
    \E t \in DOMAIN tokens : \E b \in ClientIdInputs :
        /\ tokens[t].deleted_at = NULL
        /\ ValidateAccessToken(AccessTokenOf(t)) # None
        /\ b # tokens[t].client_id
        /\ ClientValidates(b, None)
        /\ ~Refresh([refresh_token |-> Plaintext(tokens[t].refresh_token_hash[1]),
                     client_id |-> b, client_secret |-> None]).result.ok
        /\ Refresh([refresh_token |-> Plaintext(tokens[t].refresh_token_hash[1]),
                    client_id |-> tokens[t].client_id, client_secret |-> None]).result.ok

\* From one state to the next a table keeps every row, and a row that
\* carries a tombstone is not written at all.
RowsKept(before, after) ==
    /\ Len(after) >= Len(before)
    /\ \A i \in DOMAIN before : before[i].deleted_at # NULL => after[i] = before[i]

\* No row is removed and no tombstone is cleared or overwritten.
TombstonesKept ==
    (clients' # clients \/ codes' # codes \/ tokens' # tokens) =>
        /\ RowsKept(clients, clients') /\ RowsKept(codes, codes') /\ RowsKept(tokens, tokens')
        /\ \A i \in DOMAIN clients : clients'[i].client_id = clients[i].client_id
        /\ \A i \in DOMAIN codes : codes'[i].code = codes[i].code
        /\ \A i \in DOMAIN tokens : tokens'[i].token_hash = tokens[i].token_hash

\* The ids of the tombstoned clients, the values of the tombstoned codes,
\* and the refresh-token hashes of the tombstoned token rows
DeadClientIds == {clients[c].client_id : c \in {i \in DOMAIN clients : clients[i].deleted_at # NULL}}

DeadCodes == {codes[r].code : r \in {i \in DOMAIN codes : codes[i].deleted_at # NULL}}

DeadRefreshHashes ==
    {tokens[t].refresh_token_hash : t \in {i \in DOMAIN tokens : tokens[i].deleted_at # NULL}}

\* Nothing accepts a tombstoned client, code or token.
TombstonedRefused ==
    LET dead_clients == DeadClientIds
        dead_codes == DeadCodes
        dead_refresh == {Plaintext(h[1]) : h \in DeadRefreshHashes \ {NULL}}
    IN
    /\ \A cid \in dead_clients : \A secret \in SecretInputs : ValidateClient(cid, secret) = 0
    /\ \A a \in {a \in ExchangeArgs : a.client_id \in dead_clients} : ~Exchange(a).result.ok
    /\ \A a \in {a \in ExchangeArgs : a.code \in dead_codes} : ~Exchange(a).result.ok
    /\ \A a \in {a \in RefreshArgs : a.client_id \in dead_clients} : ~Refresh(a).result.ok
    /\ \A a \in {a \in RefreshArgs : a.refresh_token \in dead_refresh} : ~Refresh(a).result.ok
    /\ \A t \in DOMAIN tokens :
           tokens[t].deleted_at # NULL => ValidateAccessToken(AccessTokenOf(t)) = None

\* C35: tombstones are permanent and there is no hard delete: over any
\* sequence of operations no client, code or token record is ever removed,
\* a deleted_at once set is never cleared or overwritten, and a tombstoned
\* client, code or token is never again accepted by validate,
\* exchange_code, refresh_access_token or validate_access_token.
C35_TombstonesPermanent == []TombstonedRefused /\ [][TombstonesKept]_vars

\* A tombstoned client, a consumed code and a replaced token row at once,
\* the access token of the replaced row not yet expired.
C35_Witness ==
    /\ \E c \in DOMAIN clients : clients[c].deleted_at # NULL
    /\ \E r \in DOMAIN codes : codes[r].deleted_at # NULL
    /\ \E t \in DOMAIN tokens : tokens[t].deleted_at # NULL /\ ~AccessExpired(tokens[t])

\* The response is a JSON-RPC error object with the given code and id, and
\* has no result member
IsJsonrpcError(response, code, id) ==
    /\ DOMAIN response.body = {"jsonrpc", "id", "error"}
    /\ response.body.error.code = code
    /\ response.body.id = id

HandledMethods == {"initialize", "tools/list", "tools/call"}

ToolCalls == {"list_mcp_tools", "get_mcp_tool", "tool.execute"}

\* C36: for an authenticated request from an MCP-enabled organization,
\* POST /api/mcp with a well-formed envelope whose method is not
\* initialize, tools/list or tools/call returns a JSON-RPC error with code
\* -32601 and the request's id, and invokes no tool; a body that fails to
\* parse or to fit the envelope returns -32700 or -32600 respectively with
\* id null.
C36_UnknownMethodAndShape ==
    \A auth \in {McpAuth(req) : req \in McpRequests} : \A body \in PostBodies :
        auth.pair # None =>
            \A h \in {McpPostHandled(auth, EnabledEnv, body)} :
                /\ (body.kind = "rpc" /\ body.method \notin HandledMethods) =>
                       /\ IsJsonrpcError(h.response, -32601, body.id)
                       /\ \A i \in DOMAIN h.trace : h.trace[i].svc \notin ToolCalls
                /\ body.kind = "unparseable" => IsJsonrpcError(h.response, -32700, None)
                /\ body.kind = "invalid" => IsJsonrpcError(h.response, -32600, None)

\* An issued access token that validates is the Bearer token of a POST whose
\* method is resources/list with id 7, and of a POST whose body is not JSON.
C36_Witness ==
    \E req \in McpRequests : \E body \in PostBodies : \E bad \in PostBodies :
        /\ req.jwt_user = None /\ req.api_key = None /\ req.authorization # None
        /\ \E i \in DOMAIN tokens : tokens[i].token_hash = Hash(req.authorization[1][2])
        /\ McpAuth(req).pair # None
        /\ body.kind = "rpc" /\ body.method = "resources/list" /\ body.id = Some(7)
        /\ McpPostHandled(McpAuth(req), EnabledEnv, body).response.body.error.code = -32601
        /\ bad.kind = "unparseable"
        /\ McpPostHandled(McpAuth(req), EnabledEnv, bad).response.body.error.code = -32700

\* The verifiers and the stored challenges the check is tried with: the
\* empty string, the challenge of every code row, and the transform of
\* every verifier, the empty one included
PkceVerifiers == VerifierInputs \cup {""}

PkceChallenges ==
    {S256(v) : v \in PkceVerifiers} \cup {""}
        \cup {codes[r].code_challenge : r \in DOMAIN codes}

\* C37: the PKCE S256 check rejects whenever the code_verifier or the
\* stored code_challenge is empty, even when the stored challenge equals
\* the S256 transform of the empty verifier; otherwise it accepts exactly
\* when base64url-unpadded SHA-256 of the verifier equals the stored
\* challenge.
C37_PkceRejectsEmpty ==
    \A code_verifier \in PkceVerifiers : \A code_challenge \in PkceChallenges :
        VerifyPkceS256(code_verifier, code_challenge)
            <=> /\ code_verifier # "" /\ code_challenge # ""
                /\ S256(code_verifier) = code_challenge

\* The part of C37 that the code keeps: an empty stored challenge is
\* rejected, and a non-empty verifier is accepted exactly when its
\* transform equals the stored challenge.
C37_NonEmptyVerifier ==
    \A code_verifier \in PkceVerifiers : \A code_challenge \in PkceChallenges :
        /\ code_challenge = "" => ~VerifyPkceS256(code_verifier, code_challenge)
        /\ code_verifier # "" =>
               (VerifyPkceS256(code_verifier, code_challenge)
                    <=> S256(code_verifier) = code_challenge)

\* What is left of tombstoned client c: the access tokens issued to it that
\* are live and before their expiry still resolve their user and
\* organization, and nothing is refreshed or exchanged in its name.
AfterDelete(c) ==
    /\ \A t \in DOMAIN tokens :
           ( /\ tokens[t].client_id = clients[c].client_id
             /\ tokens[t].deleted_at = NULL
             /\ now < tokens[t].expires_at )
           => ValidateAccessToken(AccessTokenOf(t))
                  = <<tokens[t].user_id, tokens[t].organization_id>>
    /\ \A a \in {x \in RefreshArgs : x.client_id = clients[c].client_id} :
           ~Refresh(a).result.ok
    /\ \A a \in {x \in ExchangeArgs : x.client_id = clients[c].client_id} :
           ~Exchange(a).result.ok

\* A step that tombstones live client c writes that one field and nothing
\* else, and every access token validates after it as it did before.
DeleteFrame(c) ==
    (clients[c].deleted_at = NULL /\ clients'[c].deleted_at # NULL) =>
        /\ clients' = [clients EXCEPT ![c].deleted_at = Some(now)]
        /\ UNCHANGED <<codes, tokens, origin, drawn>>
        /\ \A t \in DOMAIN tokens :
               \A v \in {ValidateAccessToken(AccessTokenOf(t))} :
                   ValidateAccessToken(AccessTokenOf(t))' = v

\* C38: delete of a client changes only that client's deleted_at and leaves
\* every code and token record unchanged: access tokens issued to the
\* client before the deletion keep passing validate_access_token until they
\* expire, while they can no longer be refreshed and the client's live
\* codes can no longer be exchanged.
C38_DeleteKeepsTokens ==
    /\ [](\A c \in DOMAIN clients : clients[c].deleted_at # NULL => AfterDelete(c))
    /\ [][clients' # clients => \A c \in DOMAIN clients : DeleteFrame(c)]_vars

\* A tombstoned client with a live token row issued before the deletion:
\* its access token validates, and its refresh token, not expired, is
\* refused.
C38_Witness ==
    \E c \in DOMAIN clients : \E t \in DOMAIN tokens :
        /\ clients[c].deleted_at # NULL
        /\ tokens[t].client_id = clients[c].client_id
        /\ tokens[t].deleted_at = NULL /\ ~RefreshExpired(tokens[t])
        /\ ValidateAccessToken(AccessTokenOf(t)) # None
        /\ ~Refresh([refresh_token |-> Plaintext(tokens[t].refresh_token_hash[1]),
                     client_id |-> tokens[t].client_id, client_secret |-> None]).result.ok

\* The step adds a token row, and the client the row is issued to is live
\* in the store the step starts from
IssuedToLiveClient ==
    Len(tokens') > Len(tokens) =>
        \E c \in DOMAIN clients :
            /\ clients[c].client_id = tokens'[Len(tokens')].client_id
            /\ clients[c].deleted_at = NULL

\* C39: no token record is created for a client after that client's
\* deletion has committed, including when delete runs concurrently with an
\* exchange_code or refresh_access_token for the same client and commits
\* between their client validation step and their token commit.
C39_NoTokenAfterDelete == [][IssuedToLiveClient]_vars

\* The MCP requests that present credential cred and nothing else: as the
\* Bearer token, as the X-API-Key header, or as both
Presenting(cred) ==
    { req \in [ jwt_user : {None}, org : {None},
                api_key : {None, Some(cred)},
                authorization : {None, Some(<<"Bearer ", cred>>)} ] :
        req.api_key # None \/ req.authorization # None }

\* Credential cred is no bearer: validate_access_token resolves nobody, and
\* no MCP request presenting it is authenticated
NoBearer(cred) ==
    /\ ValidateAccessToken(cred) = None
    /\ \A req \in Presenting(cred) : McpAuth(req).pair = None

\* Credential cred is no refresh token: refresh_access_token refuses it for
\* every client and secret
NoRefreshToken(cred) ==
    \A client_id \in ClientIdInputs : \A client_secret \in SecretInputs :
        ~RefreshAccessToken(cred, client_id, client_secret).result.ok

\* C40: token kinds are not interchangeable: a refresh token presented as a
\* bearer never passes validate_access_token or authenticates an MCP
\* request, an access token presented as refresh_token is never accepted by
\* refresh_access_token, and an authorization code value is accepted by
\* neither.
C40_KindsNotInterchangeable ==
    /\ \A cred \in Creds("refresh") : NoBearer(cred)
    /\ \A cred \in Creds("access") : NoRefreshToken(cred)
    /\ \A cred \in Creds("code") : NoBearer(cred) /\ NoRefreshToken(cred)

\* A live token row whose access token authenticates an MCP request and
\* whose refresh token its client can still redeem, minted from a code: the
\* two tokens swapped, and the code in either place, are refused.
C40_Witness ==
    \E t \in DOMAIN tokens : \E r \in DOMAIN codes :
        /\ origin[t] = [table |-> "codes", row |-> r]
        /\ \E req \in Presenting(AccessTokenOf(t)) : McpAuth(req).pair # None
        /\ RefreshAccessToken(Plaintext(tokens[t].refresh_token_hash[1]),
                              tokens[t].client_id, None).result.ok
        /\ NoBearer(Plaintext(tokens[t].refresh_token_hash[1]))
        /\ NoRefreshToken(AccessTokenOf(t))
        /\ NoBearer(codes[r].code) /\ NoRefreshToken(codes[r].code)

====
